---- MODULE Spec2Model ----
(***************************************************************************)
(* A model of the DataDog usage scanner: the per-file detectors            *)
(* (datadog_detector.py, detectors/*.py) as functions on the text of a     *)
(* file, computed character by character the way the Python code computes *)
(* them, and the scan orchestrator (code_scanner.py) as a state machine    *)
(* of an orchestrator thread and the worker tasks of a thread pool, with   *)
(* the detector registry, project discovery and deduplication on their own.*)
(***************************************************************************)
EXTENDS Integers, Sequences, FiniteSets, TLC

VARIABLES
    \* detection of one file
    content,        \* the lines of the file handed to a detector
    variant,        \* which detector class runs: "legacy", "ts" or "cs"
    context_lines,  \* the configured context radius
    findings,       \* the list detect_datadog_usage returned
    dpc,            \* "ready" before the call, "done" after it
    \* extraction from initialisation lines
    tokens,         \* the clientToken values of two initialisation lines
    extracted,      \* the data_being_sent maps extracted from the two lines
    epc,            \* "ready" before the extraction, "done" after it
    \* the scan of one project
    project_files,  \* path |-> what reading and detecting that file does
    files_to_scan,  \* the paths _get_files_to_scan yielded
    futures,        \* path |-> the state and result of its _scan_file task, and the
                \* line numbers generate_file_url was called with, in order
    scan_findings,  \* the findings list of _scan_project
    files_scanned,  \* CodeScanner.files_scanned
    spc,            \* where the orchestrator thread is
    detect_calls,   \* the paths detector.detect_datadog_usage was called with
    \* one detector instance shared by threads
    detector,       \* the attributes of the DataDogDetector instance
    tpc,            \* thread |-> "idle" or "second_pass"
    tfile,          \* thread |-> the file its current call is about
    timported,      \* thread |-> the imported_methods local of its call
    log,            \* the calls that returned: <<file, findings>>, in order
    \* the detector registry
    reg_file,       \* the path given to get_detector_for_file
    reg_detector,   \* the detector it returned, or None
    rpc,            \* "ready" before the call, "done" after it
    \* project discovery
    target_dirs,    \* the directories given to scan_directories
    projects,       \* the list _discover_projects returned
    root_checks,    \* the paths _is_project_root was evaluated for
    scanned,        \* the paths of the projects handed to _scan_project
    kpc,            \* "start", "scan", "done", or "raised"
    \* deduplication of a list of candidates
    dedup_input,    \* the list given to _deduplicate_findings
    dedup_result,   \* the list it returned
    upc,            \* "ready" before the call, "done" after it
    \* the link collaborator used by the tasks of a pool
    branch_cache,   \* GitHubLinker._branch_cache: project path |-> branch
    lpc,            \* task |-> where it is in get_branch_for_project
    lbranch,        \* task |-> the branch local of its get_branch_for_project call
    llink,          \* task |-> the branch in the link left on its finding
    \* scan_directories calls on one scanner
    dir_calls,      \* the target_dirs lists of the calls made on the scanner, in order
    dir_call,       \* the number of the call that runs or ran last
    user_ignore,    \* config.scan.ignore_patterns when the scanner was created
    scan_ignore,    \* config.scan.ignore_patterns
    dir_projects,   \* the projects list of the call, with findings_count
    dir_project,    \* the number of the project whose scan began last
    dir_files,      \* the files_to_scan list of _scan_project
    dir_tasks,      \* <<project number, path>> |-> state and result of the file task
    dir_pool,       \* "none", "open" or "shut": the executor of dir_project
    dir_findings,   \* the findings list of _scan_project
    all_findings,   \* the all_findings list of scan_directories
    dir_scanned,    \* CodeScanner.files_scanned
    dir_results,    \* the ScanResults the calls returned
    apc             \* where the orchestrator thread is

dvars == <<content, variant, context_lines, findings, dpc>>
evars == <<tokens, extracted, epc>>
svars == <<project_files, files_to_scan, futures, scan_findings, files_scanned, spc,
           detect_calls>>
tvars == <<tpc, tfile, timported, log>>
rvars == <<reg_file, reg_detector, rpc>>
kvars == <<target_dirs, projects, root_checks, scanned, kpc>>
uvars == <<dedup_input, dedup_result, upc>>
lvars == <<branch_cache, lpc, lbranch, llink>>
avars == <<dir_calls, dir_call, user_ignore, scan_ignore, dir_projects, dir_project,
           dir_files, dir_tasks, dir_pool,
           dir_findings, all_findings, dir_scanned, dir_results, apc>>
vars == <<dvars, evars, svars, detector, tvars, rvars, kvars, uvars, lvars, avars>>

(***************************************************************************)
(* Python str operations.  A str is a TLA+ string; positions are 1-based   *)
(* here and 0-based in the source, and every slice clips like Python's.    *)
(***************************************************************************)
Min(a, b) == IF a <= b THEN a ELSE b
Max(a, b) == IF a >= b THEN a ELSE b

Ch(s, i) == SubSeq(s, i, i)

\* s[a:b] for 0 <= a, 0 <= b
Slice(s, a, b) ==
    IF a + 1 > Min(b, Len(s)) THEN "" ELSE SubSeq(s, a + 1, Min(b, Len(s)))

UpperLetters == "ABCDEFGHIJKLMNOPQRSTUVWXYZ"
LowerLetters == "abcdefghijklmnopqrstuvwxyz"
Digits == "0123456789"
UpperSet == {Ch(UpperLetters, i) : i \in 1..Len(UpperLetters)}
LowerSet == {Ch(LowerLetters, i) : i \in 1..Len(LowerLetters)}
DigitSet == {Ch(Digits, i) : i \in 1..Len(Digits)}
ToLower == [c \in UpperSet |->
              Ch(LowerLetters, CHOOSE i \in 1..Len(UpperLetters) : Ch(UpperLetters, i) = c)]
LowerCh(c) == IF c \in UpperSet THEN ToLower[c] ELSE c

\* s.lower(), by halves
RECURSIVE lower(_)
lower(s) ==
    IF Len(s) <= 1 THEN (IF s = "" THEN "" ELSE LowerCh(s))
    ELSE lower(SubSeq(s, 1, Len(s) \div 2)) \o lower(SubSeq(s, Len(s) \div 2 + 1, Len(s)))

WhiteSet == {" ", "\t", "\n", "\r"}
WordSet == UpperSet \cup LowerSet \cup DigitSet \cup {"_"}

RECURSIVE lstrip(_)
lstrip(s) == IF s # "" /\ Ch(s, 1) \in WhiteSet THEN lstrip(SubSeq(s, 2, Len(s))) ELSE s
RECURSIVE rstrip(_)
rstrip(s) == IF s # "" /\ Ch(s, Len(s)) \in WhiteSet THEN rstrip(SubSeq(s, 1, Len(s) - 1)) ELSE s
strip(s) == rstrip(lstrip(s))

SetMin(S) == CHOOSE x \in S : \A y \in S : x <= y
SetMax(S) == CHOOSE x \in S : \A y \in S : x >= y

\* the 1-based positions of s where sub occurs
occurrences(s, sub) ==
    {p \in 1..(Len(s) - Len(sub) + 1) : SubSeq(s, p, p + Len(sub) - 1) = sub}

\* s.find(sub, from): the 1-based position of the first occurrence at or after
\* position from, 0 when there is none (Python's -1)
find(s, sub, from) ==
    LET later == {p \in occurrences(s, sub) : p >= from}
    IN IF later = {} THEN 0 ELSE SetMin(later)

\* s.rfind(sub): the 1-based position of the last occurrence, 0 when none
rfind(s, sub) ==
    IF occurrences(s, sub) = {} THEN 0 ELSE SetMax(occurrences(s, sub))

\* sub in s
contains(s, sub) == find(s, sub, 1) # 0

startswith(s, p) == Len(p) <= Len(s) /\ SubSeq(s, 1, Len(p)) = p
endswith(s, p) == Len(p) <= Len(s) /\ SubSeq(s, Len(s) - Len(p) + 1, Len(s)) = p

\* s.split(sep), sep not empty
RECURSIVE split(_, _)
split(s, sep) ==
    LET p == find(s, sep, 1) IN
    IF p = 0 THEN <<s>>
    ELSE <<SubSeq(s, 1, p - 1)>> \o split(SubSeq(s, p + Len(sep), Len(s)), sep)

\* sep.join(parts)
RECURSIVE join(_, _)
join(parts, sep) ==
    IF parts = <<>> THEN ""
    ELSE IF Len(parts) = 1 THEN parts[1]
    ELSE parts[1] \o sep \o join(Tail(parts), sep)

(***************************************************************************)
(* Python re.  A pattern is a sequence of nodes; MatchAt is the            *)
(* backtracking matcher (greedy quantifiers, alternatives in order,        *)
(* capture groups, word boundary, negative lookahead).  Under              *)
(* re.IGNORECASE the subject is lower-cased and the pattern's literals     *)
(* are written with LitI; every character class used under IGNORECASE      *)
(* here is closed under case.                                              *)
(***************************************************************************)
Lit(s) == [k |-> "lit", s |-> s]
LitI(s) == [k |-> "lit", s |-> lower(s)]
\* a quantified character class: lo..1 repetitions when one, lo or more otherwise
Rep(set, neg, lo, one) == [k |-> "rep", set |-> set, neg |-> neg, lo |-> lo, one |-> one]
Open(g) == [k |-> "open", g |-> g]
Close(g) == [k |-> "close", g |-> g]
Alt(alts) == [k |-> "alt", alts |-> alts]
Star(sub) == [k |-> "star", sub |-> sub]
WordB == [k |-> "wb"]
NotAhead(sub) == [k |-> "nla", sub |-> sub]
S0 == Rep(WhiteSet, FALSE, 0, FALSE)          \* \s*
S1 == Rep(WhiteSet, FALSE, 1, FALSE)          \* \s+
W1 == Rep(WordSet, FALSE, 1, FALSE)           \* \w+
DotStar == Rep({"\n"}, TRUE, 0, FALSE)        \* .*
Quote == Rep({"'", "\""}, FALSE, 1, TRUE)     \* ['"]
NotQuote1 == Rep({"'", "\""}, TRUE, 1, FALSE) \* [^'"]+
NotQuote0 == Rep({"'", "\""}, TRUE, 0, FALSE) \* [^'"]*
Not1(c) == Rep({c}, TRUE, 1, FALSE)           \* [^c]+
Group(g, sub) == <<Open(g)>> \o sub \o <<Close(g)>>

NoCaps == <<<<0, 0>>, <<0, 0>>>>
Fail == [ok |-> FALSE]

InClass(n, c) == (c \in n.set) # n.neg
IsWordAt(s, i) == i >= 1 /\ i <= Len(s) /\ Ch(s, i) \in WordSet

\* how many characters of s from position a on, a..b at most, are in the class
\* of n; computed by halves
RECURSIVE RunIn(_, _, _, _)
RunIn(n, s, a, b) ==
    IF a > b THEN 0
    ELSE IF a = b THEN (IF InClass(n, Ch(s, a)) THEN 1 ELSE 0)
    ELSE LET mid == (a + b) \div 2
             left == RunIn(n, s, a, mid)
         IN IF left = mid - a + 1 THEN left + RunIn(n, s, mid + 1, b) ELSE left

\* the longest run a greedy quantifier takes at position i
RunLen(n, s, i) == RunIn(n, s, i, IF n.one THEN Min(i, Len(s)) ELSE Len(s))

RECURSIVE MatchAt(_, _, _, _)
RECURSIVE TryDown(_, _, _, _, _, _)
RECURSIVE TryAlts(_, _, _, _, _, _)

MatchAt(re, s, i, caps) ==
    IF re = <<>> THEN [ok |-> TRUE, end |-> i, caps |-> caps]
    ELSE LET n == Head(re)
             rest == Tail(re)
         IN CASE n.k = "lit" ->
                   IF i + Len(n.s) - 1 <= Len(s) /\ SubSeq(s, i, i + Len(n.s) - 1) = n.s
                   THEN MatchAt(rest, s, i + Len(n.s), caps) ELSE Fail
              [] n.k = "rep" -> TryDown(rest, s, i, n.lo, RunLen(n, s, i), caps)
              [] n.k = "open" ->
                   MatchAt(rest, s, i, [caps EXCEPT ![n.g] = <<i, 0>>])
              [] n.k = "close" ->
                   MatchAt(rest, s, i, [caps EXCEPT ![n.g] = <<caps[n.g][1], i>>])
              [] n.k = "alt" -> TryAlts(n.alts, 1, rest, s, i, caps)
              [] n.k = "star" ->
                   LET r == MatchAt(n.sub \o <<n>> \o rest, s, i, caps)
                   IN IF r.ok THEN r ELSE MatchAt(rest, s, i, caps)
              [] n.k = "wb" ->
                   IF IsWordAt(s, i - 1) # IsWordAt(s, i)
                   THEN MatchAt(rest, s, i, caps) ELSE Fail
              [] n.k = "nla" ->
                   IF MatchAt(n.sub, s, i, caps).ok THEN Fail
                   ELSE MatchAt(rest, s, i, caps)

\* backtracking of a greedy quantifier: the rest of the pattern after the
\* longest run of lo..hi characters that lets it match; the runs are tried
\* from the longest down, by halves
TryDown(rest, s, i, lo, hi, caps) ==
    IF hi < lo THEN Fail
    ELSE IF lo = hi THEN MatchAt(rest, s, i + hi, caps)
    ELSE LET mid == (lo + hi) \div 2
             upper == TryDown(rest, s, i, mid + 1, hi, caps)
         IN IF upper.ok THEN upper ELSE TryDown(rest, s, i, lo, mid, caps)

TryAlts(alts, a, rest, s, i, caps) ==
    IF a > Len(alts) THEN Fail
    ELSE LET r == MatchAt(alts[a] \o rest, s, i, caps)
         IN IF r.ok THEN r ELSE TryAlts(alts, a + 1, rest, s, i, caps)

\* the leftmost match of re in t that starts at a position in lo..hi; the
\* positions are tried left to right, by halves
RECURSIVE SearchIn(_, _, _, _)
SearchIn(re, t, lo, hi) ==
    IF lo > hi THEN Fail
    ELSE IF lo = hi
    THEN LET r == MatchAt(re, t, lo, NoCaps)
         IN IF r.ok THEN [ok |-> TRUE, start |-> lo, end |-> r.end, caps |-> r.caps]
            ELSE Fail
    ELSE LET mid == (lo + hi) \div 2
             left == SearchIn(re, t, lo, mid)
         IN IF left.ok THEN left ELSE SearchIn(re, t, mid + 1, hi)

\* the leftmost match of re in t starting at or after position i
SearchFrom(re, t, i) == SearchIn(re, t, i, Len(t) + 1)

\* re.search(pattern, s) and re.search(pattern, s, re.IGNORECASE)
search(re, s) == SearchFrom(re, s, 1)
searchI(re, s) == SearchFrom(re, lower(s), 1)

\* re.finditer(pattern, s): the non-overlapping matches, left to right
RECURSIVE FindAllFrom(_, _, _)
FindAllFrom(re, t, i) ==
    LET m == SearchFrom(re, t, i) IN
    IF ~m.ok THEN <<>>
    ELSE <<m>> \o FindAllFrom(re, t, IF m.end > m.start THEN m.end ELSE m.end + 1)
finditer(re, s) == FindAllFrom(re, s, 1)
finditerI(re, s) == FindAllFrom(re, lower(s), 1)

\* match.group(g): the text of s the group captured; "" for a group that took
\* no part in the match (Python's None, which the source only tests for truth)
group(s, m, g) ==
    IF m.caps[g][2] = 0 THEN "" ELSE SubSeq(s, m.caps[g][1], m.caps[g][2] - 1)

(***************************************************************************)
(* Python dict, with str keys and str values, as the sequence of its       *)
(* <<key, value>> items in insertion order.                                *)
(***************************************************************************)
has(d, key) == \E i \in 1..Len(d) : d[i][1] = key
get(d, key, default) ==
    IF has(d, key) THEN d[CHOOSE i \in 1..Len(d) : d[i][1] = key][2] ELSE default
\* d[key] = value
put(d, key, value) ==
    IF has(d, key)
    THEN [i \in 1..Len(d) |-> IF d[i][1] = key THEN <<key, value>> ELSE d[i]]
    ELSE Append(d, <<key, value>>)

\* repr(v) of a str: in double quotes when v holds ' and no ", in single quotes
\* otherwise, with the quote character, backslash, newline, tab and return escaped
escapedCh(c, quote) ==
    CASE c = "\\" -> "\\\\"
      [] c = "\n" -> "\\n"
      [] c = "\t" -> "\\t"
      [] c = "\r" -> "\\r"
      [] c = quote -> "\\" \o c
      [] OTHER -> c
RECURSIVE escaped(_, _)
escaped(v, quote) ==
    IF Len(v) <= 1 THEN (IF v = "" THEN "" ELSE escapedCh(v, quote))
    ELSE escaped(SubSeq(v, 1, Len(v) \div 2), quote)
         \o escaped(SubSeq(v, Len(v) \div 2 + 1, Len(v)), quote)
\* Python's None as a dict value: a str no text extracted from one line can be
PyNone == "\n"
repr(v) ==
    IF v = PyNone THEN "None"
    ELSE IF contains(v, "'") /\ ~contains(v, "\"")
    THEN "\"" \o escaped(v, "\"") \o "\""
    ELSE "'" \o escaped(v, "'") \o "'"

\* str(d) of a dict
RECURSIVE str_items(_)
str_items(d) ==
    IF d = <<>> THEN ""
    ELSE repr(d[1][1]) \o ": " \o repr(d[1][2])
         \o (IF Len(d) > 1 THEN ", " ELSE "") \o str_items(Tail(d))
str(d) == "{" \o str_items(d) \o "}"
strLen(d) == Len(str(d))

(***************************************************************************)
(* DataDogDetector (datadog_detector.py): the pattern table.               *)
(***************************************************************************)
Call(name) == <<LitI(name), S0, Lit("(")>>                 \* name\s*\(
ImportOf(pkg) == <<LitI("import"), S1, DotStar, LitI(pkg)>>     \* import\s+.*pkg
FromOf(pkg) == <<LitI("from"), S1, Quote, LitI(pkg), Quote>>    \* from\s+['"]pkg['"]
RequireOf(pkg) == <<LitI("require"), S0, Lit("("), S0, Quote, LitI(pkg), Quote>>

DD_patterns == <<
    <<"imports", << ImportOf("@datadog/browser-rum"),
                    ImportOf("@datadog/browser-logs"),
                    ImportOf("@datadog/browser-rum-react"),
                    FromOf("@datadog/browser-rum"),
                    FromOf("@datadog/browser-logs"),
                    RequireOf("@datadog/browser-rum"),
                    RequireOf("@datadog/browser-logs") >> >>,
    <<"init", << Call("datadogRum.init"),
                 Call("datadogLogs.createLogger"),
                 Call("DD_RUM.init") >> >>,
    <<"rum_action", << Call("datadogRum.addAction"), Call("DD_RUM.addAction") >> >>,
    <<"rum_error", << Call("datadogRum.addError"), Call("DD_RUM.addError") >> >>,
    <<"rum_timing", << Call("datadogRum.addTiming"), Call("DD_RUM.addTiming") >> >>,
    <<"log_info", << Call("logger.info"), Call("datadogLogs.logger.info") >> >>,
    <<"log_error", << Call("logger.error"), Call("datadogLogs.logger.error") >> >>,
    <<"log_warn", << Call("logger.warn"), Call("datadogLogs.logger.warn") >> >>,
    <<"log_debug", << Call("logger.debug"), Call("datadogLogs.logger.debug") >> >> >>

\* mapping.get(pattern_type, CUSTOM_ATTRIBUTE), with the enum's values
DD_get_operation_type(pattern_type) ==
    CASE pattern_type = "imports" -> "import"
      [] pattern_type = "init" -> "initialisation"
      [] pattern_type \in {"rum_action", "rum_error", "rum_timing", "log_info",
                           "log_error", "log_warn", "log_debug"} -> pattern_type
      [] OTHER -> "custom_attribute"

\* the sub-patterns of _extract_data_from_line (all case-sensitive)
RE_import_items ==                               \* import\s+({[^}]+}|\w+)
    <<Lit("import"), S1>>
    \o Group(1, <<Alt(<< <<Lit("{"), Not1("}"), Lit("}")>>, <<W1>> >>)>>)
RE_package ==                                    \* ['"](@datadog/[^'"]+)['"]
    <<Quote>> \o Group(1, <<Lit("@datadog/"), NotQuote1>>) \o <<Quote>>
RE_config ==                                     \* \(\s*({[^}]+})
    <<Lit("("), S0>> \o Group(1, <<Lit("{"), Not1("}"), Lit("}")>>)
KeyValue(key) ==                                 \* key\s*:\s*['"]([^'"]+)['"]
    <<Lit(key), S0, Lit(":"), S0, Quote>> \o Group(1, <<NotQuote1>>) \o <<Quote>>
RE_params ==                                     \* \(\s*([^)]+)\)
    <<Lit("("), S0>> \o Group(1, <<Not1(")")>>) \o <<Lit(")")>>
RE_string ==                                     \* ['"]([^'"]+)['"]
    <<Quote>> \o Group(1, <<NotQuote1>>) \o <<Quote>>

TokenPrefix == 10

\* data['client_token'] = client_token_match.group(1)[:10] + "..."
\* a redaction that leaves short values alone
DD_truncate_long_token(token) ==
    IF Len(token) >= TokenPrefix THEN Slice(token, 0, TokenPrefix) \o "..." ELSE token

DD_truncate_token(token) == Slice(token, 0, TokenPrefix) \o "..."

DD_extract_init(config_str) ==
    LET app == search(KeyValue("applicationId"), config_str)
        tok == search(KeyValue("clientToken"), config_str)
        site == search(KeyValue("site"), config_str)
        d0 == <<<<"configuration", config_str>>>>
        d1 == IF app.ok THEN put(d0, "application_id", group(config_str, app, 1)) ELSE d0
        d2 == IF tok.ok
              THEN put(d1, "client_token", DD_truncate_token(group(config_str, tok, 1)))
              ELSE d1
    IN IF site.ok THEN put(d2, "site", group(config_str, site, 1)) ELSE d2

DD_extract_params(line, pattern_type, name_key) ==
    LET pm == search(RE_params, line)
        params == group(line, pm, 1)
        d0 == <<<<"parameters", params>>>>
        sm == search(RE_string, params)
    IN IF ~pm.ok THEN <<>>
       ELSE IF name_key # "" /\ sm.ok THEN put(d0, name_key, group(params, sm, 1))
       ELSE d0

DD_extract_data_from_line(line, pattern_type) ==
    CASE pattern_type = "imports" ->
           LET im == search(RE_import_items, line)
               pk == search(RE_package, line)
               d0 == IF im.ok THEN <<<<"imported_items", group(line, im, 1)>>>> ELSE <<>>
           IN IF pk.ok THEN put(d0, "package", group(line, pk, 1)) ELSE d0
      [] pattern_type = "init" ->
           LET cm == search(RE_config, line)
           IN IF cm.ok THEN DD_extract_init(group(line, cm, 1)) ELSE <<>>
      [] startswith(pattern_type, "rum_") ->
           DD_extract_params(line, pattern_type,
               CASE pattern_type = "rum_action" -> "action_name"
                 [] pattern_type = "rum_error" -> "error_message"
                 [] OTHER -> "")
      [] startswith(pattern_type, "log_") ->
           DD_extract_params(line, pattern_type, "log_message")
      [] OTHER -> <<>>

DD_user_action_keywords == <<"click", "tap", "swipe", "scroll", "input", "select", "submit">>

anyKeywordIn(keywords, text) == \E i \in 1..Len(keywords) : contains(text, keywords[i])

DD_categorise_data(data, pattern_type) ==
    CASE pattern_type = "imports" -> "configuration_data"
      [] pattern_type = "init" -> "configuration_data"
      [] pattern_type = "rum_error" -> "error_data"
      [] pattern_type = "rum_timing" -> "performance_data"
      [] startswith(pattern_type, "log_error") -> "error_data"
      [] startswith(pattern_type, "log_") -> "system_data"
      [] pattern_type = "rum_action" ->
           IF anyKeywordIn(DD_user_action_keywords, lower(get(data, "action_name", "")))
           THEN "user_data" ELSE "system_data"
      [] OTHER -> "unknown"

(***************************************************************************)
(* DataDogDetector: the import resolver (first pass).  The imported        *)
(* methods are a dict name -> info, here the sequence of its items         *)
(* <<name, info>> in insertion order.                                      *)
(***************************************************************************)
RE_from_package ==              \* \s+from\s+['"](@datadog/[^'"]+)['"]
    <<S1, LitI("from"), S1, Quote>> \o Group(2, <<LitI("@datadog/"), NotQuote1>>) \o <<Quote>>
DD_import_patterns == <<
    \* import\s+\{\s*([^}]+)\s*\}\s+from\s+['"](@datadog/[^'"]+)['"]
    <<LitI("import"), S1, Lit("{"), S0>> \o Group(1, <<Not1("}")>>) \o <<S0, Lit("}")>>
        \o RE_from_package,
    \* import\s+(\w+)\s+from\s+['"](@datadog/[^'"]+)['"]
    <<LitI("import"), S1>> \o Group(1, <<W1>>) \o RE_from_package,
    \* import\s+\*\s+as\s+(\w+)\s+from\s+['"](@datadog/[^'"]+)['"]
    <<LitI("import"), S1, Lit("*"), S1, LitI("as"), S1>> \o Group(1, <<W1>>)
        \o RE_from_package >>

\* clean_method = method.split(' as ')[0].strip()
DD_clean_method(method) == strip(split(method, " as ")[1])

RECURSIVE DD_bind_methods(_, _, _, _)
DD_bind_methods(imported, methods, package, line) ==
    IF methods = <<>> THEN imported
    ELSE LET clean_method == DD_clean_method(Head(methods))
             info == [package |-> package,
                      import_type |-> IF contains(line, "{") THEN "named" ELSE "default",
                      original_line |-> strip(line)]
         IN DD_bind_methods(
                IF clean_method # "" THEN put(imported, clean_method, info) ELSE imported,
                Tail(methods), package, line)

RECURSIVE DD_import_line(_, _, _)
DD_import_line(imported, line, p) ==
    IF p > Len(DD_import_patterns) THEN imported
    ELSE LET m == searchI(DD_import_patterns[p], line)
             imported_items == strip(group(line, m, 1))
             package == group(line, m, 2)
             parts == split(imported_items, ",")
             methods == IF ~contains(line, "{") \/ ~contains(line, "}")
                        THEN <<strip(imported_items)>>
                        ELSE [j \in 1..Len(parts) |-> strip(parts[j])]
         IN DD_import_line(
                IF m.ok THEN DD_bind_methods(imported, methods, package, line)
                ELSE imported,
                line, p + 1)

RECURSIVE DD_import_lines(_, _, _)
DD_import_lines(imported, lines, n) ==
    IF n > Len(lines) THEN imported
    ELSE DD_import_lines(DD_import_line(imported, lines[n], 1), lines, n + 1)

DD_extract_imported_methods(lines) == DD_import_lines(<<>>, lines, 1)

(***************************************************************************)
(* DataDogDetector: calls of imported methods (second pass, part two).     *)
(* Positions handed between the source's functions are 0-based, as there.  *)
(***************************************************************************)
MethodCallPatterns(method_name) == <<
    <<WordB, LitI(method_name), S0, Lit("(")>>,              \* \bname\s*\(
    <<Lit("."), S0, LitI(method_name), S0, Lit("(")>>,       \* \.\s*name\s*\(
    <<WordB, LitI(method_name), WordB, NotAhead(<<S0, Lit(":")>>)>> >>  \* \bname\b(?!\s*:)

\* the index (1-based) of the parenthesis closing the one at paren_start: the
\* first position where as many have closed as have opened; the default when
\* the line ends first
ParenEnd(line, paren_start, default) ==
    LET opened(i) == Cardinality({k \in paren_start..i : Ch(line, k) = "("})
        closed(i) == Cardinality({k \in paren_start..i : Ch(line, k) = ")"})
        closing == {i \in paren_start..Len(line) :
                       Ch(line, i) = ")" /\ opened(i) = closed(i)}
    IN IF closing = {} THEN default ELSE SetMin(closing)

DD_extract_call_context(line, start_pos) ==
    LET paren_start == find(line, "(", start_pos + 1)      \* 1-based, 0 for none
        paren_end == ParenEnd(line, paren_start, paren_start)
        method_start == Max(0, start_pos - 10)
        call_end == Min(Len(line), paren_end)
    IN IF paren_start = 0 THEN strip(line)
       ELSE strip(Slice(line, method_start, call_end))

DD_determine_call_type(line, match_start) ==
    LET before_match == strip(Slice(line, 0, match_start))
        pieces == split(before_match, "=")
        tail10 == Slice(before_match, Max(0, Len(before_match) - 10), Len(before_match))
    IN IF endswith(before_match, ".") THEN "method_call"
       ELSE IF contains(before_match, "=") /\ strip(pieces[Len(pieces)]) = ""
            THEN "assignment"
       ELSE IF contains(tail10, "new ") THEN "constructor"
       ELSE "function_call"

RECURSIVE DD_calls_of_matches(_, _, _, _)
DD_calls_of_matches(line, method_name, method_info, matches) ==
    IF matches = <<>> THEN <<>>
    ELSE LET m == Head(matches) IN
         <<[method_name |-> method_name,
            package |-> method_info.package,
            call_context |-> DD_extract_call_context(line, m.start - 1),
            match_start |-> m.start - 1,
            match_end |-> m.end - 1,
            call_type |-> DD_determine_call_type(line, m.start - 1)]>>
         \o DD_calls_of_matches(line, method_name, method_info, Tail(matches))

DD_find_method_calls(line, method_name, method_info) ==
    LET pats == MethodCallPatterns(method_name) IN
    DD_calls_of_matches(line, method_name, method_info, finditerI(pats[1], line))
    \o DD_calls_of_matches(line, method_name, method_info, finditerI(pats[2], line))
    \o DD_calls_of_matches(line, method_name, method_info, finditerI(pats[3], line))

\* the parameters between the first "(" and the last ")", "" for None
extract_parameters_from_call(call_context) ==
    LET start == find(call_context, "(", 1)
        end == rfind(call_context, ")")
    IN IF start # 0 /\ end # 0 /\ end > start
       THEN strip(Slice(call_context, start, end - 1)) ELSE ""

get_method_operation_type(method_name, package) ==
    LET method_lower == lower(method_name)
        package_lower == lower(package)
    IN IF contains(package_lower, "rum") \/ method_name \in {"addAction", "addError", "addTiming"}
       THEN (IF contains(method_lower, "action") THEN "rum_action"
             ELSE IF contains(method_lower, "error") THEN "rum_error"
             ELSE IF contains(method_lower, "timing") THEN "rum_timing"
             ELSE "custom_attribute")
       ELSE IF contains(package_lower, "log") \/ method_name \in {"logger", "createLogger"}
       THEN (IF contains(method_lower, "error") THEN "log_error"
             ELSE IF contains(method_lower, "warn") THEN "log_warn"
             ELSE IF contains(method_lower, "debug") THEN "log_debug"
             ELSE "log_info")
       ELSE IF contains(package_lower, "react")
               \/ method_name \in {"reactPlugin", "createBrowserRouter"}
       THEN "configuration"
       ELSE "custom_attribute"

categorise_method_call(method_name, package) ==
    LET method_lower == lower(method_name)
        package_lower == lower(package)
    IN IF contains(method_lower, "error") \/ contains(package_lower, "error")
       THEN "error_data"
       ELSE IF contains(method_lower, "timing") \/ contains(method_lower, "performance")
       THEN "performance_data"
       ELSE IF contains(method_lower, "action")
               /\ anyKeywordIn(<<"click", "tap", "swipe", "scroll", "input">>, method_lower)
       THEN "user_data"
       ELSE IF contains(package_lower, "react") \/ contains(method_lower, "plugin")
       THEN "configuration_data"
       ELSE "system_data"

(***************************************************************************)
(* Findings.                                                               *)
(***************************************************************************)
\* all_lines[max(0, line_num - context_lines - 1) : min(len(all_lines), line_num + context_lines)]
\* a window that starts one line late
get_context_lines_late(all_lines, line_num, radius) ==
    LET context_start == Max(0, line_num - radius)
        context_end == Min(Len(all_lines), line_num + radius)
    IN SubSeq(all_lines, context_start + 1, context_end)

get_context_lines(all_lines, line_num, radius) ==
    LET context_start == Max(0, line_num - radius - 1)
        context_end == Min(Len(all_lines), line_num + radius)
    IN SubSeq(all_lines, context_start + 1, context_end)

\* a finding whose data_being_sent also holds the extracted parameters
FindingWithParamsInData(file_path, line_num, line, operation_type, data_being_sent, data_category, context, project_name, github_url, extracted_parameters) ==
    [file_path |-> file_path,
     line_number |-> line_num,
     code_snippet |-> strip(line),
     operation_type |-> operation_type,
     data_being_sent |-> data_being_sent \o extracted_parameters,
     data_category |-> data_category,
     context_lines |-> context,
     github_url |-> github_url,
     project_name |-> project_name,
     extracted_parameters |-> extracted_parameters]

Finding(file_path, line_num, line, operation_type, data_being_sent, data_category, context, project_name, github_url, extracted_parameters) ==
    [file_path |-> file_path,
     line_number |-> line_num,
     code_snippet |-> strip(line),
     operation_type |-> operation_type,
     data_being_sent |-> data_being_sent,
     data_category |-> data_category,
     context_lines |-> context,
     github_url |-> github_url,
     project_name |-> project_name,
     extracted_parameters |-> extracted_parameters]

\* extracted_parameters = None; the dict of _extract_detailed_parameters is
\* never empty, so the empty one stands for None
NoParams == <<>>

RE_func_call ==                                  \* \w+\s*\(\s*([^)]+)\)
    <<W1, S0, Lit("("), S0>> \o Group(1, <<Not1(")")>>) \o <<Lit(")")>>
RE_key_value ==                                  \* (\w+)\s*:\s*([^,}]+)
    Group(1, <<W1>>) \o <<S0, Lit(":"), S0>>
    \o Group(2, <<Rep({",", "}"}, TRUE, 1, FALSE)>>)

\* for key, value in kv_matches: params[key] = value.strip()
RECURSIVE put_key_values(_, _, _)
put_key_values(params, param_str, kv_matches) ==
    IF kv_matches = <<>> THEN params
    ELSE put_key_values(put(params, group(param_str, Head(kv_matches), 1),
                            strip(group(param_str, Head(kv_matches), 2))),
                        param_str, Tail(kv_matches))

DD_extract_detailed_parameters(detailed, line, pattern_type) ==
    LET func_match == search(RE_func_call, line)
        param_str == group(line, func_match, 1)
        kv == put_key_values(<<>>, param_str, finditer(RE_key_value, param_str))
        string_matches == finditer(RE_string, param_str)
    IN IF ~detailed \/ ~func_match.ok THEN NoParams
       ELSE IF string_matches = <<>> THEN kv
       ELSE put(kv, "string_literals",
                [k \in 1..Len(string_matches) |-> group(param_str, string_matches[k], 1)])

DD_create_finding(file_path, line_num, line, all_lines, pattern_type, radius, detailed, project_name, github_url) ==
    LET data_being_sent == DD_extract_data_from_line(line, pattern_type) IN
    Finding(file_path, line_num, line,
            DD_get_operation_type(pattern_type),
            data_being_sent,
            DD_categorise_data(data_being_sent, pattern_type),
            get_context_lines(all_lines, line_num, radius),
            project_name, github_url,
            IF detailed THEN DD_extract_detailed_parameters(detailed, line, pattern_type)
            ELSE NoParams)

DD_create_method_call_finding(file_path, line_num, line, all_lines, call_info, radius, detailed, project_name, github_url) ==
    LET d0 == << <<"method_name", call_info.method_name>>,
                 <<"package", call_info.package>>,
                 <<"call_context", call_info.call_context>>,
                 <<"call_type", call_info.call_type>> >>
        parameters == extract_parameters_from_call(call_info.call_context)
        data_being_sent ==
            IF call_info.call_type \in {"function_call", "method_call"} /\ parameters # ""
            THEN put(d0, "parameters", parameters) ELSE d0
    IN Finding(file_path, line_num, line,
               get_method_operation_type(call_info.method_name, call_info.package),
               data_being_sent,
               categorise_method_call(call_info.method_name, call_info.package),
               get_context_lines(all_lines, line_num, radius),
               project_name, github_url,
            IF detailed THEN DD_extract_detailed_parameters(detailed, line, "method_call")
            ELSE NoParams)

(***************************************************************************)
(* _deduplicate_findings, the same code in DataDogDetector and in          *)
(* BaseDataDogDetector.                                                    *)
(***************************************************************************)
KeyOf(finding) == <<finding.file_path, finding.line_number>>

\* a replacement test that also lets data of equal length in
prefer_not_shorter(existing_finding, finding) ==
    IF strLen(finding.data_being_sent) >= strLen(existing_finding.data_being_sent)
       \/ (has(finding.data_being_sent, "method_name")
           /\ ~has(existing_finding.data_being_sent, "method_name"))
    THEN finding ELSE existing_finding

\* the finding that stays for a key when a later candidate of that key arrives
prefer(existing_finding, finding) ==
    IF strLen(finding.data_being_sent) > strLen(existing_finding.data_being_sent)
       \/ (has(finding.data_being_sent, "method_name")
           /\ ~has(existing_finding.data_being_sent, "method_name"))
    THEN finding ELSE existing_finding

\* a deduplication that drops the kept finding and puts the richer one first
dedup_step_moving(deduplicated, finding) ==
    IF \A i \in 1..Len(deduplicated) : KeyOf(deduplicated[i]) # KeyOf(finding)
    THEN Append(deduplicated, finding)
    ELSE LET existing_idx == CHOOSE i \in 1..Len(deduplicated) :
                                KeyOf(deduplicated[i]) = KeyOf(finding)
         IN IF prefer(deduplicated[existing_idx], finding) = deduplicated[existing_idx]
            THEN deduplicated
            ELSE <<finding>>
                 \o SelectSeq(deduplicated, LAMBDA f : KeyOf(f) # KeyOf(finding))

dedup_step(deduplicated, finding) ==
    IF \A i \in 1..Len(deduplicated) : KeyOf(deduplicated[i]) # KeyOf(finding)
    THEN Append(deduplicated, finding)
    ELSE LET existing_idx == CHOOSE i \in 1..Len(deduplicated) :
                                /\ KeyOf(deduplicated[i]) = KeyOf(finding)
                                /\ \A j \in 1..(i - 1) : KeyOf(deduplicated[j]) # KeyOf(finding)
         IN [deduplicated EXCEPT ![existing_idx] = prefer(deduplicated[existing_idx], finding)]

RECURSIVE dedup_loop(_, _)
dedup_loop(deduplicated, candidates) ==
    IF candidates = <<>> THEN deduplicated
    ELSE dedup_loop(dedup_step(deduplicated, Head(candidates)), Tail(candidates))

\* a detector that returns every candidate
keep_all_findings(candidates) == candidates

deduplicate_findings(candidates) == dedup_loop(<<>>, candidates)

(***************************************************************************)
(* DataDogDetector.detect_datadog_usage.                                   *)
(***************************************************************************)
\* the pattern types whose regexes match the line, one entry per matching
\* regex, in the order of the two loops over self.patterns
type_hits(entry, line) ==
    SelectSeq([r \in 1..Len(entry[2]) |->
                  IF SearchFrom(entry[2][r], line, 1).ok THEN entry[1] ELSE ""],
              LAMBDA hit : hit # "")

RECURSIVE matching_regexes(_, _, _)
matching_regexes(patterns, line, t) ==
    IF t > Len(patterns) THEN <<>>
    ELSE type_hits(patterns[t], line) \o matching_regexes(patterns, line, t + 1)

matching_pattern_types(patterns, line) == matching_regexes(patterns, lower(line), 1)

(***************************************************************************)
(* The lines the files of the model are made of.  The regex work on a line *)
(* depends on the line alone, so it is done once per line of these         *)
(* alphabets and looked up afterwards; any other line is computed directly.*)
(***************************************************************************)
WebLines == << "// Line 1",
               "datadogRum.addAction('test'); logger.info('test');",
               "import { addAction as track } from '@datadog/browser-rum';",
               "track();",
               "addAction('x');" >>

UnityLines == << "// c",
                 "using Datadog.Unity.Rum;",
                 "DatadogSdk.Instance.Rum.AddAction(RumUserActionType.Tap, \"button\");",
                 "var t = RumUserActionType.Tap;",
                 "logger.Info(\"a\"); logger.Error(\"b\");" >>

IndexOf(seq, x) ==
    IF \E i \in DOMAIN seq : seq[i] = x THEN CHOOSE i \in DOMAIN seq : seq[i] = x ELSE 0

RECURSIVE DD_types_upto(_)
DD_types_upto(i) ==
    IF i = 0 THEN <<>>
    ELSE Append(DD_types_upto(i - 1), matching_pattern_types(DD_patterns, WebLines[i]))

DD_types_table == DD_types_upto(Len(WebLines))

\* the pattern-table matches of a line: for pattern_type, patterns in
\* self.patterns.items(): for pattern in patterns: if pattern.search(line)
DD_pattern_types(line) ==
    LET i == IndexOf(WebLines, line) IN
    IF i > 0 THEN DD_types_table[i] ELSE matching_pattern_types(DD_patterns, line)

RECURSIVE DD_method_findings(_, _, _, _, _, _, _, _, _)
DD_method_findings(file_path, line_num, all_lines, imported_methods, k, radius, detailed, project_name, github_url) ==
    IF k > Len(imported_methods) THEN <<>>
    ELSE LET calls == DD_find_method_calls(all_lines[line_num], imported_methods[k][1],
                                           imported_methods[k][2])
         IN [c \in 1..Len(calls) |->
                DD_create_method_call_finding(file_path, line_num, all_lines[line_num],
                    all_lines, calls[c], radius, detailed, project_name, github_url)]
            \o DD_method_findings(file_path, line_num, all_lines, imported_methods, k + 1,
                                  radius, detailed, project_name, github_url)

\* a second pass that tests the imported symbols on every line
DD_line_candidates_both(file_path, line_num, all_lines, imported_methods, radius, detailed, project_name, github_url) ==
    LET line == all_lines[line_num]
        types == DD_pattern_types(line)
    IN [t \in 1..Len(types) |->
           DD_create_finding(file_path, line_num, line, all_lines, types[t], radius, detailed,
                             project_name, github_url)]
       \o DD_method_findings(file_path, line_num, all_lines, imported_methods, 1, radius, detailed,
                             project_name, github_url)

\* a second pass that drops the candidates for which nothing was extracted
DD_line_candidates_with_data(file_path, line_num, all_lines, imported_methods, radius, detailed, project_name, github_url) ==
    LET line == all_lines[line_num]
        types == DD_pattern_types(line)
    IN IF types # <<>>
       THEN SelectSeq([t \in 1..Len(types) |->
                          DD_create_finding(file_path, line_num, line, all_lines, types[t], radius,
                                            detailed, project_name, github_url)],
                      LAMBDA candidate : candidate.data_being_sent # <<>>)
       ELSE DD_method_findings(file_path, line_num, all_lines, imported_methods, 1, radius, detailed,
                               project_name, github_url)

DD_line_candidates(file_path, line_num, all_lines, imported_methods, radius, detailed, project_name, github_url) ==
    LET line == all_lines[line_num]
        types == DD_pattern_types(line)
    IN IF types # <<>>
       THEN [t \in 1..Len(types) |->
                DD_create_finding(file_path, line_num, line, all_lines, types[t], radius, detailed,
                                  project_name, github_url)]
       ELSE DD_method_findings(file_path, line_num, all_lines, imported_methods, 1, radius, detailed,
                               project_name, github_url)

RECURSIVE DD_candidates(_, _, _, _, _, _, _, _)
DD_candidates(file_path, line_num, all_lines, imported_methods, radius, detailed, project_name, github_url) ==
    IF line_num > Len(all_lines) THEN <<>>
    ELSE DD_line_candidates(file_path, line_num, all_lines, imported_methods, radius, detailed,
                            project_name, github_url)
         \o DD_candidates(file_path, line_num + 1, all_lines, imported_methods, radius, detailed,
                          project_name, github_url)

\* DataDogDetector.__init__: the attributes of a new instance
NewDetector(radius, detailed) ==
    [context_lines |-> radius, detailed_extraction |-> detailed,
     imported_datadog_methods |-> <<>>]

\* a first pass that keeps the symbol map on the instance, where the next
\* call finds it
DD_first_pass_on_instance(self, lines) ==
    LET merged == DD_import_lines(self.imported_datadog_methods, lines, 1) IN
    [imported_methods |-> merged,
     self |-> [self EXCEPT !.imported_datadog_methods = merged]]

\* first pass of a call on the instance self: the symbol map is a local of
\* the call, and the instance stays as it was
DD_first_pass(self, lines) ==
    [imported_methods |-> DD_extract_imported_methods(lines), self |-> self]

\* second pass and deduplication of a call on the instance self
DD_second_pass(self, file_path, lines, imported_methods, project_name, github_url) ==
    deduplicate_findings(
        DD_candidates(file_path, 1, lines, imported_methods, self.context_lines, self.detailed_extraction,
                      project_name, github_url))

\* the rest of a call whose first pass has ended
DD_after_first_pass(first, file_path, lines, project_name, github_url) ==
    [findings |-> DD_second_pass(first.self, file_path, lines, first.imported_methods,
                                 project_name, github_url),
     self |-> first.self]

\* one whole call on the instance self: what it returns, and the instance after it
DD_call(self, file_path, lines, project_name, github_url) ==
    DD_after_first_pass(DD_first_pass(self, lines), file_path, lines, project_name,
                        github_url)

DD_detect_datadog_usage(file_path, lines, radius, detailed, project_name, github_url) ==
    DD_call(NewDetector(radius, detailed), file_path, lines, project_name, github_url).findings

(***************************************************************************)
(* TypeScriptDataDogDetector (detectors/typescript_detector.py).  Its      *)
(* pattern table, operation-type maps, call-context and parameter          *)
(* extraction are the same code as DataDogDetector's.                      *)
(***************************************************************************)
TS_patterns == DD_patterns

TS_import_patterns == <<
    \* import\s+\{\s*([^}]+)\s*\}\s+from\s+['"](@datadog/[^'"]+)['"]
    <<LitI("import"), S1, Lit("{"), S0>> \o Group(1, <<Not1("}")>>) \o <<S0, Lit("}")>>
        \o RE_from_package,
    \* import\s+(\w+)\s+from\s+['"](@datadog/[^'"]+)['"]
    <<LitI("import"), S1>> \o Group(1, <<W1>>) \o RE_from_package >>

RECURSIVE TS_bind_items(_, _, _)
TS_bind_items(imported, items, package) ==
    IF items = <<>> THEN imported
    ELSE TS_bind_items(
             IF strip(Head(items)) # ""
             THEN put(imported, strip(Head(items)),
                      [package |-> package, import_type |-> "destructured"])
             ELSE imported,
             Tail(items), package)

RECURSIVE TS_bind_matches(_, _, _)
TS_bind_matches(imported, text, matches) ==
    IF matches = <<>> THEN imported
    ELSE LET imported_items == strip(group(text, Head(matches), 1))
             package == group(text, Head(matches), 2)
         IN TS_bind_matches(
                IF ~contains(imported_items, "{")
                THEN put(imported, imported_items,
                         [package |-> package, import_type |-> "default"])
                ELSE TS_bind_items(imported, split(imported_items, ","), package),
                text, Tail(matches))

\* re.finditer over the whole content, pattern after pattern
TS_extract_imported_methods(lines) ==
    LET text == join(lines, "\n") IN
    TS_bind_matches(
        TS_bind_matches(<<>>, text, finditerI(TS_import_patterns[1], text)),
        text, finditerI(TS_import_patterns[2], text))

TS_determine_call_type(line, start_pos) ==
    LET line_before == strip(Slice(line, 0, start_pos)) IN
    IF contains(line_before, "=") /\ endswith(line_before, "=") THEN "assignment"
    ELSE IF contains(line_before, ".") THEN "method_call"
    ELSE IF contains(Slice(line, start_pos, start_pos + 20), "(") THEN "function_call"
    ELSE "reference"

RECURSIVE TS_calls_of_matches(_, _, _, _)
TS_calls_of_matches(line, method_name, method_info, matches) ==
    IF matches = <<>> THEN <<>>
    ELSE LET m == Head(matches) IN
         <<[method_name |-> method_name,
            package |-> method_info.package,
            call_context |-> DD_extract_call_context(line, m.start - 1),
            match_start |-> m.start - 1,
            match_end |-> m.end - 1,
            call_type |-> TS_determine_call_type(line, m.start - 1)]>>
         \o TS_calls_of_matches(line, method_name, method_info, Tail(matches))

TS_find_method_calls(line, method_name, method_info) ==
    LET pats == MethodCallPatterns(method_name) IN
    TS_calls_of_matches(line, method_name, method_info, finditerI(pats[1], line))
    \o TS_calls_of_matches(line, method_name, method_info, finditerI(pats[2], line))
    \o TS_calls_of_matches(line, method_name, method_info, finditerI(pats[3], line))

\* \.(?:a|b|...)\s*\(\s*   followed by the capture
MemberCall(names) ==
    <<Lit("."), Alt([j \in 1..Len(names) |-> <<Lit(names[j])>>]), S0, Lit("("), S0>>
TS_log_names == <<"info", "error", "warn", "debug">>
TS_rum_names == <<"addAction", "addError", "addTiming">>
\* ...['"]([^'"]*)['"]
FirstLiteral(names) == MemberCall(names) \o <<Quote>> \o Group(1, <<NotQuote0>>) \o <<Quote>>
\* ...([^)]+)\)
CallParams(names) == MemberCall(names) \o Group(1, <<Not1(")")>>) \o <<Lit(")")>>

TS_extract_member_call(line, names, name_key) ==
    LET lm == search(FirstLiteral(names), line)
        pm == search(CallParams(names), line)
        d0 == IF lm.ok THEN <<<<name_key, group(line, lm, 1)>>>> ELSE <<>>
    IN IF pm.ok THEN put(d0, "parameters", group(line, pm, 1)) ELSE d0

TS_extract_data_from_line(line, pattern_type) ==
    CASE pattern_type = "imports" ->
           LET im == search(RE_import_items, line)
               pk == search(RE_package, line)
               d0 == IF im.ok THEN <<<<"imported_items", group(line, im, 1)>>>> ELSE <<>>
           IN IF pk.ok THEN put(d0, "package", group(line, pk, 1)) ELSE d0
      [] pattern_type \in {"log_info", "log_error", "log_warn", "log_debug"} ->
           TS_extract_member_call(line, TS_log_names, "log_message")
      [] pattern_type \in {"rum_action", "rum_error", "rum_timing"} ->
           TS_extract_member_call(line, TS_rum_names, "action_name")
      [] OTHER -> <<>>

TS_categorise_data(data_being_sent, pattern_type) ==
    CASE pattern_type = "imports" -> "configuration_data"
      [] pattern_type = "init" -> "configuration_data"
      [] pattern_type \in {"log_error", "rum_error"} -> "error_data"
      [] pattern_type \in {"rum_timing"} -> "performance_data"
      [] pattern_type \in {"rum_action"}
         /\ anyKeywordIn(<<"click", "tap", "input", "select">>, lower(str(data_being_sent)))
           -> "user_data"
      [] OTHER -> "system_data"

\* "return None"
TS_extract_detailed_parameters(line, pattern_type) == NoParams

TS_create_finding(file_path, line_num, line, all_lines, pattern_type, radius, detailed, project_name, github_url) ==
    LET data_being_sent == TS_extract_data_from_line(line, pattern_type) IN
    Finding(file_path, line_num, line,
            DD_get_operation_type(pattern_type),
            data_being_sent,
            TS_categorise_data(data_being_sent, pattern_type),
            get_context_lines(all_lines, line_num, radius),
            project_name, github_url,
            IF detailed THEN TS_extract_detailed_parameters(line, pattern_type)
            ELSE NoParams)

TS_create_method_call_finding(file_path, line_num, line, all_lines, call_info, radius, detailed, project_name, github_url) ==
    LET d0 == << <<"method_name", call_info.method_name>>,
                 <<"package", call_info.package>>,
                 <<"call_context", call_info.call_context>>,
                 <<"call_type", call_info.call_type>> >>
        params == extract_parameters_from_call(call_info.call_context)
        data_being_sent == IF params # "" THEN put(d0, "parameters", params) ELSE d0
    IN Finding(file_path, line_num, line,
               get_method_operation_type(call_info.method_name, call_info.package),
               data_being_sent,
               categorise_method_call(call_info.method_name, call_info.package),
               get_context_lines(all_lines, line_num, radius),
               project_name, github_url,
            NoParams)

RECURSIVE TS_method_findings(_, _, _, _, _, _, _, _, _)
TS_method_findings(file_path, line_num, all_lines, imported_methods, k, radius, detailed, project_name, github_url) ==
    IF k > Len(imported_methods) THEN <<>>
    ELSE LET calls == TS_find_method_calls(all_lines[line_num], imported_methods[k][1],
                                           imported_methods[k][2])
         IN [c \in 1..Len(calls) |->
                TS_create_method_call_finding(file_path, line_num, all_lines[line_num],
                    all_lines, calls[c], radius, detailed, project_name, github_url)]
            \o TS_method_findings(file_path, line_num, all_lines, imported_methods, k + 1,
                                  radius, detailed, project_name, github_url)

TS_line_candidates(file_path, line_num, all_lines, imported_methods, radius, detailed, project_name, github_url) ==
    LET line == all_lines[line_num]
        types == DD_pattern_types(line)
    IN IF types # <<>>
       THEN [t \in 1..Len(types) |->
                TS_create_finding(file_path, line_num, line, all_lines, types[t], radius, detailed,
                                  project_name, github_url)]
       ELSE TS_method_findings(file_path, line_num, all_lines, imported_methods, 1, radius, detailed,
                               project_name, github_url)

RECURSIVE TS_candidates(_, _, _, _, _, _, _, _)
TS_candidates(file_path, line_num, all_lines, imported_methods, radius, detailed, project_name, github_url) ==
    IF line_num > Len(all_lines) THEN <<>>
    ELSE TS_line_candidates(file_path, line_num, all_lines, imported_methods, radius, detailed,
                            project_name, github_url)
         \o TS_candidates(file_path, line_num + 1, all_lines, imported_methods, radius, detailed,
                          project_name, github_url)

TS_detect_datadog_usage(file_path, lines, radius, detailed, project_name, github_url) ==
    deduplicate_findings(
        TS_candidates(file_path, 1, lines, TS_extract_imported_methods(lines), radius, detailed,
                      project_name, github_url))

(***************************************************************************)
(* CSharpDataDogDetector (detectors/csharp_detector.py).                   *)
(***************************************************************************)
AltI(names) == Alt([j \in 1..Len(names) |-> <<LitI(names[j])>>])
\* prefix(?:a|b)suffix\s*\(
CallAlt(prefix, names, suffix) == <<LitI(prefix), AltI(names), LitI(suffix), S0, Lit("(")>>
\* \.Log\s*\(\s*DdLogLevel\.Level
LogLevel(level) == <<LitI(".Log"), S0, Lit("("), S0, LitI("DdLogLevel." \o level)>>
Using(ns) == <<LitI("using"), S1, LitI(ns)>>

CS_patterns == <<
    <<"imports", << Using("Datadog.Unity"), Using("Datadog.Unity.Rum"),
                    Using("Datadog.Unity.Logs"), Using("Datadog.Unity.Core") >> >>,
    <<"init", << Call("DatadogSdk.InitWithPlatform"),
                 Call("DatadogSdk.Instance.SetTrackingConsent"),
                 Call("DatadogSdk.Instance.SetSdkVerbosity") >> >>,
    <<"rum_action", << CallAlt("DatadogSdk.Instance.Rum.", <<"Add", "Start">>, "Action"),
                       Call("DatadogSdk.Instance.Rum.StopAction"),
                       CallAlt(".Rum.", <<"Add", "Start">>, "Action"),
                       Call(".Rum.StopAction") >> >>,
    <<"rum_error", << Call("DatadogSdk.Instance.Rum.AddError"), Call(".Rum.AddError") >> >>,
    <<"rum_timing", << Call("DatadogSdk.Instance.Rum.AddTiming"), Call(".Rum.AddTiming") >> >>,
    <<"rum_view", << Call("DatadogSdk.Instance.Rum.StartView"),
                     Call("DatadogSdk.Instance.Rum.StopView"),
                     CallAlt(".Rum.", <<"Start", "Stop">>, "View") >> >>,
    <<"rum_attribute", << Call("DatadogSdk.Instance.Rum.AddAttribute"),
                          Call("DatadogSdk.Instance.Rum.RemoveAttribute"),
                          CallAlt(".Rum.", <<"Add", "Remove">>, "Attribute") >> >>,
    <<"log_create", << Call("DatadogSdk.Instance.CreateLogger"), Call(".CreateLogger") >> >>,
    <<"log_info", << LogLevel("Info"), Call(".Info") >> >>,
    <<"log_error", << LogLevel("Error"), Call(".Error") >> >>,
    <<"log_warn", << LogLevel("Warn"), Call(".Warn") >> >>,
    <<"log_debug", << LogLevel("Debug"), Call(".Debug") >> >>,
    <<"user_info", << Call("DatadogSdk.Instance.SetUserInfo"),
                      Call("DatadogSdk.Instance.AddUserExtraInfo"),
                      Call(".SetUserInfo"), Call(".AddUserExtraInfo") >> >>,
    <<"global_attributes", << Call("DatadogSdk.Instance.AddLogsAttribute"),
                              Call("DatadogSdk.Instance.AddLogsAttributes"),
                              Call("DatadogSdk.Instance.RemoveLogsAttribute"),
                              CallAlt(".", <<"Add", "Remove">>, "LogsAttribute") >> >>,
    <<"clear_data", << Call("DatadogSdk.Instance.ClearAllData"), Call(".ClearAllData") >> >> >>

CS_get_operation_type(pattern_type) ==
    CASE pattern_type = "imports" -> "import"
      [] pattern_type \in {"init", "log_create"} -> "initialisation"
      [] pattern_type \in {"rum_action", "rum_error", "rum_timing", "log_info",
                           "log_error", "log_warn", "log_debug"} -> pattern_type
      [] pattern_type \in {"user_info", "clear_data"} -> "configuration"
      [] OTHER -> "custom_attribute"

Letters1 == Rep(UpperSet \cup LowerSet, FALSE, 1, FALSE)         \* [A-Za-z]+
\* using\s+(Datadog\.Unity(?:\.[A-Za-z]+)*)\s*;
CS_using_pattern ==
    <<LitI("using"), S1>>
    \o Group(1, <<LitI("Datadog.Unity"), Star(<<Lit("."), Letters1>>)>>)
    \o <<S0, Lit(";")>>

CS_well_known(imported, namespace, word, types) ==
    IF contains(namespace, word)
    THEN put(put(imported, types[1][1], [namespace |-> namespace, import_type |-> types[1][2]]),
             types[2][1], [namespace |-> namespace, import_type |-> types[2][2]])
    ELSE imported

RECURSIVE CS_bind_types(_, _, _)
CS_bind_types(imported, text, matches) ==
    IF matches = <<>> THEN imported
    ELSE LET namespace == group(text, Head(matches), 1)
             pieces == split(namespace, ".")
             type_name == IF contains(namespace, ".") THEN pieces[Len(pieces)] ELSE namespace
             i1 == put(imported, type_name, [namespace |-> namespace, import_type |-> "using"])
             i2 == CS_well_known(i1, namespace, "Rum",
                       << <<"RumUserActionType", "enum">>, <<"IDdRum", "interface">> >>)
             i3 == CS_well_known(i2, namespace, "Logs",
                       << <<"DdLogLevel", "enum">>, <<"DdLogger", "class">> >>)
         IN CS_bind_types(i3, text, Tail(matches))

CS_extract_imported_types(lines) ==
    LET text == join(lines, "\n") IN
    CS_bind_types(<<>>, text, finditerI(CS_using_pattern, text))

TypeUsagePatterns(type_name) == <<
    <<WordB, LitI(type_name), Lit(".")>> \o Group(1, <<W1>>),                 \* \bT\.(\w+)
    <<WordB, LitI(type_name), Lit(".")>> \o Group(1, <<W1>>) \o <<S0, Lit("(")>>,  \* \bT\.(\w+)\s*\(
    <<WordB, LitI(type_name), S1>> \o Group(1, <<W1>>) >>                     \* \bT\s+(\w+)

CS_extract_usage_context(line, start_pos) ==
    LET paren_start == find(line, "(", start_pos + 1)
        paren_end == ParenEnd(line, paren_start, paren_start)
        context_start == Max(0, start_pos - 10)
    IN IF contains(Slice(line, start_pos, start_pos + 50), "(")
       THEN strip(Slice(line, context_start, Min(Len(line), paren_end)))
       ELSE strip(Slice(line, context_start, Min(Len(line), start_pos + 50)))

CS_determine_usage_type(line, start_pos, matched_text) ==
    LET after == start_pos + Len(matched_text)
        line_after == Slice(line, after, after + 10)
        line_before == Slice(line, Max(0, start_pos - 10), start_pos)
    IN IF contains(line_after, "(") THEN "method_call"
       ELSE IF contains(matched_text, ".") THEN "property_access"
       ELSE IF anyKeywordIn(<<"new ", "var ", "public ", "private ">>, line_before)
       THEN "declaration"
       ELSE IF contains(line_before, "=") /\ endswith(strip(line_before), "=")
       THEN "assignment"
       ELSE "reference"

RECURSIVE CS_calls_of_matches(_, _, _, _)
CS_calls_of_matches(line, type_name, type_info, matches) ==
    IF matches = <<>> THEN <<>>
    ELSE LET m == Head(matches) IN
         <<[type_name |-> type_name,
            member_name |-> group(line, m, 1),
            namespace |-> type_info.namespace,
            usage_context |-> CS_extract_usage_context(line, m.start - 1),
            match_start |-> m.start - 1,
            match_end |-> m.end - 1,
            usage_type |-> CS_determine_usage_type(line, m.start - 1,
                                                   Slice(line, m.start - 1, m.end - 1))]>>
         \o CS_calls_of_matches(line, type_name, type_info, Tail(matches))

CS_find_type_usage(line, type_name, type_info) ==
    LET pats == TypeUsagePatterns(type_name) IN
    CS_calls_of_matches(line, type_name, type_info, finditerI(pats[1], line))
    \o CS_calls_of_matches(line, type_name, type_info, finditerI(pats[2], line))
    \o CS_calls_of_matches(line, type_name, type_info, finditerI(pats[3], line))

CS_get_type_operation_type(type_name, member_name) ==
    LET type_lower == lower(type_name)
        member_lower == lower(member_name)
    IN IF contains(type_lower, "rum")
       THEN (IF contains(member_lower, "action") THEN "rum_action"
             ELSE IF contains(member_lower, "error") THEN "rum_error"
             ELSE IF contains(member_lower, "timing") THEN "rum_timing"
             ELSE "custom_attribute")
       ELSE IF contains(type_lower, "log") \/ contains(type_lower, "logger")
       THEN (IF contains(member_lower, "error") THEN "log_error"
             ELSE IF contains(member_lower, "warn") THEN "log_warn"
             ELSE IF contains(member_lower, "debug") THEN "log_debug"
             ELSE "log_info")
       ELSE IF contains(type_lower, "datadog") /\ contains(type_lower, "sdk")
       THEN "configuration"
       ELSE "custom_attribute"

CS_categorise_type_usage(type_name, member_name) ==
    LET type_lower == lower(type_name)
        member_lower == lower(member_name)
    IN IF contains(type_lower, "error") \/ contains(member_lower, "error")
       THEN "error_data"
       ELSE IF contains(member_lower, "timing") \/ contains(member_lower, "performance")
       THEN "performance_data"
       ELSE IF contains(member_lower, "action")
               /\ anyKeywordIn(<<"tap", "click", "swipe", "scroll", "touch">>, member_lower)
       THEN "user_data"
       ELSE IF contains(type_lower, "config") \/ contains(member_lower, "init")
               \/ contains(member_lower, "setup")
       THEN "configuration_data"
       ELSE "system_data"

\* \.(?:a|b)   and   \.(?:a|b)(?:c|d)
CS_log_call == <<Lit("."), Alt(<< <<Lit("Log")>>, <<Lit("Info")>>, <<Lit("Error")>>,
                                  <<Lit("Warn")>>, <<Lit("Debug")>> >>)>>
CS_rum_call == <<Lit("."), Alt(<< <<Lit("Add")>>, <<Lit("Start")>>, <<Lit("Stop")>> >>),
                 Alt(<< <<Lit("Action")>>, <<Lit("Error")>>, <<Lit("Timing")>> >>)>>
Optional(sub) == Alt(<<sub, <<>>>>)
\* \.(?:Log|Info|Error|Warn|Debug)\s*\(\s*(?:DdLogLevel\.\w+,\s*)?["']([^"']*)["']
CS_RE_log_message ==
    CS_log_call \o <<S0, Lit("("), S0, Optional(<<Lit("DdLogLevel."), W1, Lit(","), S0>>), Quote>>
    \o Group(1, <<NotQuote0>>) \o <<Quote>>
\* \.(?:Add|Start|Stop)(?:Action|Error|Timing)\s*\(\s*(?:RumUserActionType\.(\w+),\s*)?["']([^"']*)["']
CS_RE_action ==
    CS_rum_call
    \o <<S0, Lit("("), S0,
         Optional(<<Lit("RumUserActionType.")>> \o Group(1, <<W1>>) \o <<Lit(","), S0>>), Quote>>
    \o Group(2, <<NotQuote0>>) \o <<Quote>>
\* call\s*\(([^)]+)\)
CS_RE_call_params(call) == call \o <<S0, Lit("(")>> \o Group(1, <<Not1(")")>>) \o <<Lit(")")>>
\* using\s+(Datadog\.[A-Za-z.]+)
CS_RE_namespace ==
    <<Lit("using"), S1>>
    \o Group(1, <<Lit("Datadog."), Rep(UpperSet \cup LowerSet \cup {"."}, FALSE, 1, FALSE)>>)
\* \.(?:Add|Remove)Attribute\s*\(\s*["']([^"']*)["'](?:\s*,\s*([^)]+))?
CS_RE_attribute ==
    <<Lit("."), Alt(<< <<Lit("Add")>>, <<Lit("Remove")>> >>), Lit("Attribute"), S0, Lit("("),
      S0, Quote>>
    \o Group(1, <<NotQuote0>>)
    \o <<Quote, Optional(<<S0, Lit(","), S0>> \o Group(2, <<Not1(")")>>))>>
CS_user_call == <<Lit("."), Alt(<< <<Lit("SetUserInfo")>>, <<Lit("AddUserExtraInfo")>> >>)>>

CS_extract_data_from_line(line, pattern_type) ==
    CASE pattern_type = "imports" ->
           LET um == search(CS_RE_namespace, line)
           IN IF um.ok THEN <<<<"namespace", group(line, um, 1)>>>> ELSE <<>>
      [] pattern_type \in {"log_info", "log_error", "log_warn", "log_debug"} ->
           LET lm == search(CS_RE_log_message, line)
               pm == search(CS_RE_call_params(CS_log_call), line)
               d0 == IF lm.ok THEN <<<<"log_message", group(line, lm, 1)>>>> ELSE <<>>
           IN IF pm.ok THEN put(d0, "parameters", group(line, pm, 1)) ELSE d0
      [] pattern_type \in {"rum_action", "rum_error", "rum_timing"} ->
           LET am == search(CS_RE_action, line)
               pm == search(CS_RE_call_params(CS_rum_call), line)
               g1 == group(line, am, 1)
               g2 == group(line, am, 2)
               d0 == IF am.ok
                     THEN << <<"action_type", IF g1 # "" THEN g1 ELSE "Custom">>,
                             <<"action_name",
                               IF g2 # "" THEN g2
                               ELSE IF am.caps[1][2] = 0 THEN PyNone ELSE g1>> >>
                     ELSE <<>>
           IN IF pm.ok THEN put(d0, "parameters", group(line, pm, 1)) ELSE d0
      [] pattern_type = "rum_attribute" ->
           LET am == search(CS_RE_attribute, line)
               d0 == <<<<"attribute_key", group(line, am, 1)>>>>
           IN IF ~am.ok THEN <<>>
              ELSE IF group(line, am, 2) # "" THEN put(d0, "attribute_value", group(line, am, 2))
              ELSE d0
      [] pattern_type = "user_info" ->
           LET pm == search(CS_RE_call_params(CS_user_call), line)
           IN IF pm.ok THEN <<<<"parameters", group(line, pm, 1)>>>> ELSE <<>>
      [] OTHER -> <<>>

CS_categorise_data(data_being_sent, pattern_type) ==
    CASE pattern_type = "imports" -> "configuration_data"
      [] pattern_type \in {"init", "user_info", "global_attributes", "clear_data"}
           -> "configuration_data"
      [] pattern_type \in {"log_error", "rum_error"} -> "error_data"
      [] pattern_type \in {"rum_timing"} -> "performance_data"
      [] pattern_type \in {"rum_action"}
         /\ anyKeywordIn(<<"tap", "click", "swipe", "scroll", "touch">>,
                         lower(str(data_being_sent)))
           -> "user_data"
      [] OTHER -> "system_data"

RECURSIVE CS_types_upto(_)
CS_types_upto(i) ==
    IF i = 0 THEN <<>>
    ELSE Append(CS_types_upto(i - 1), matching_pattern_types(CS_patterns, UnityLines[i]))

CS_types_table == CS_types_upto(Len(UnityLines))

CS_pattern_types(line) ==
    LET i == IndexOf(UnityLines, line) IN
    IF i > 0 THEN CS_types_table[i] ELSE matching_pattern_types(CS_patterns, line)

\* "return None"
CS_extract_detailed_parameters(line, pattern_type) == NoParams

CS_create_finding(file_path, line_num, line, all_lines, pattern_type, radius, detailed, project_name, github_url) ==
    LET data_being_sent == CS_extract_data_from_line(line, pattern_type) IN
    Finding(file_path, line_num, line,
            CS_get_operation_type(pattern_type),
            data_being_sent,
            CS_categorise_data(data_being_sent, pattern_type),
            get_context_lines(all_lines, line_num, radius),
            project_name, github_url,
            IF detailed THEN CS_extract_detailed_parameters(line, pattern_type)
            ELSE NoParams)

CS_create_type_usage_finding(file_path, line_num, line, all_lines, call_info, radius, detailed, project_name, github_url) ==
    LET d0 == << <<"type_name", call_info.type_name>>,
                 <<"member_name", call_info.member_name>>,
                 <<"namespace", call_info.namespace>>,
                 <<"usage_context", call_info.usage_context>>,
                 <<"usage_type", call_info.usage_type>> >>
        params == extract_parameters_from_call(call_info.usage_context)
        data_being_sent == IF params # "" THEN put(d0, "parameters", params) ELSE d0
    IN Finding(file_path, line_num, line,
               CS_get_type_operation_type(call_info.type_name, call_info.member_name),
               data_being_sent,
               CS_categorise_type_usage(call_info.type_name, call_info.member_name),
               get_context_lines(all_lines, line_num, radius),
               project_name, github_url,
            NoParams)

RECURSIVE CS_type_findings(_, _, _, _, _, _, _, _, _)
CS_type_findings(file_path, line_num, all_lines, imported_types, k, radius, detailed, project_name, github_url) ==
    IF k > Len(imported_types) THEN <<>>
    ELSE LET calls == CS_find_type_usage(all_lines[line_num], imported_types[k][1],
                                         imported_types[k][2])
         IN [c \in 1..Len(calls) |->
                CS_create_type_usage_finding(file_path, line_num, all_lines[line_num],
                    all_lines, calls[c], radius, detailed, project_name, github_url)]
            \o CS_type_findings(file_path, line_num, all_lines, imported_types, k + 1,
                                radius, detailed, project_name, github_url)

CS_line_candidates(file_path, line_num, all_lines, imported_types, radius, detailed, project_name, github_url) ==
    LET line == all_lines[line_num]
        types == CS_pattern_types(line)
    IN IF types # <<>>
       THEN [t \in 1..Len(types) |->
                CS_create_finding(file_path, line_num, line, all_lines, types[t], radius, detailed,
                                  project_name, github_url)]
       ELSE CS_type_findings(file_path, line_num, all_lines, imported_types, 1, radius, detailed,
                             project_name, github_url)

RECURSIVE CS_candidates(_, _, _, _, _, _, _, _)
CS_candidates(file_path, line_num, all_lines, imported_types, radius, detailed, project_name, github_url) ==
    IF line_num > Len(all_lines) THEN <<>>
    ELSE CS_line_candidates(file_path, line_num, all_lines, imported_types, radius, detailed,
                            project_name, github_url)
         \o CS_candidates(file_path, line_num + 1, all_lines, imported_types, radius, detailed,
                          project_name, github_url)

CS_detect_datadog_usage(file_path, lines, radius, detailed, project_name, github_url) ==
    deduplicate_findings(
        CS_candidates(file_path, 1, lines, CS_extract_imported_types(lines), radius, detailed,
                      project_name, github_url))

\* detect_datadog_usage of the detector class named by v
detect_datadog_usage(v, file_path, lines, radius, detailed, project_name, github_url) ==
    CASE v = "legacy" -> DD_detect_datadog_usage(file_path, lines, radius, detailed, project_name, github_url)
      [] v = "ts" -> TS_detect_datadog_usage(file_path, lines, radius, detailed, project_name, github_url)
      [] v = "cs" -> CS_detect_datadog_usage(file_path, lines, radius, detailed, project_name, github_url)

(***************************************************************************)
(* GitHubLinker.generate_file_url (github_linker.py).  The project         *)
(* directory is not a git checkout, so get_branch_for_project falls back   *)
(* to the default branch.                                                  *)
(***************************************************************************)
ScanRoot == "/work"
ProjectName == "app"
ProjectPath == ScanRoot \o "/" \o ProjectName
BaseUrl == "https://github.com/Volley-Inc"
DefaultBranch == "main"

generate_file_url(file_path, line_number) ==
    LET relative_path == split(Slice(file_path, Len(ScanRoot) + 1, Len(file_path)), "/")
        project_name == relative_path[1]
        project_relative_path == join(Tail(relative_path), "/")
        file_url == BaseUrl \o "/" \o project_name \o "/blob/" \o DefaultBranch
                    \o "/" \o project_relative_path
    IN IF line_number > 0 THEN file_url \o "#L" \o ToString(line_number) ELSE file_url

(***************************************************************************)
(* CodeScanner (code_scanner.py): which files of a project are scanned.    *)
(***************************************************************************)
file_extensions == <<".ts", ".tsx", ".js", ".jsx", ".cs">>
\* ConfigManager.DEFAULT_IGNORE_PATTERNS of a react project
ignore_patterns == <<"node_modules/**", "build/**", "dist/**", ".next/**", "coverage/**",
                     "*.min.js", "*.bundle.js">>
DefaultContextLines == 3
PoolCap == 8

Rest(s) == SubSeq(s, 2, Len(s))

\* fnmatch.fnmatch(name, pat) for patterns of literals, * and ?
RECURSIVE fnmatch(_, _)
fnmatch(name, pat) ==
    IF pat = "" THEN name = ""
    ELSE IF Ch(pat, 1) = "*"
    THEN fnmatch(name, Rest(pat)) \/ (name # "" /\ fnmatch(Rest(name), pat))
    ELSE IF Ch(pat, 1) = "?" THEN name # "" /\ fnmatch(Rest(name), Rest(pat))
    ELSE name # "" /\ Ch(name, 1) = Ch(pat, 1) /\ fnmatch(Rest(name), Rest(pat))

\* s.rstrip(chars)
RECURSIVE rstrip_chars(_, _)
rstrip_chars(s, chars) ==
    IF s # "" /\ Ch(s, Len(s)) \in chars THEN rstrip_chars(SubSeq(s, 1, Len(s) - 1), chars)
    ELSE s

\* Path(path).suffix
suffix(path) ==
    LET parts == split(path, "/")
        name == parts[Len(parts)]
        dot == rfind(name, ".")
    IN IF dot > 1 /\ dot < Len(name) THEN SubSeq(name, dot, Len(name)) ELSE ""

should_ignore_file(relative_path_str) ==
    LET parts == split(relative_path_str, "/") IN
    \E k \in DOMAIN ignore_patterns :
        \/ fnmatch(relative_path_str, ignore_patterns[k])
        \/ \E j \in DOMAIN parts :
              fnmatch(parts[j], rstrip_chars(ignore_patterns[k], {"/", "*"}))

is_datadog_related_file(file_path) ==
    suffix(file_path) \in {".js", ".jsx", ".ts", ".tsx", ".vue", ".svelte"}

\* the test of _get_files_to_scan on one file of the project
is_file_to_scan(path) ==
    /\ \E k \in DOMAIN file_extensions : suffix(path) = file_extensions[k]
    /\ ~should_ignore_file(path)
    /\ is_datadog_related_file(ProjectPath \o "/" \o path)

\* the files a project can hold: path below the project root, and content
Catalogue == <<
    [path |-> "src/rum.ts", lines |-> <<WebLines[3], WebLines[5]>>],
    [path |-> "src/app.ts", lines |-> <<WebLines[1], WebLines[2]>>],
    [path |-> "src/call.tsx", lines |-> <<WebLines[5]>>],
    [path |-> "Assets/Tracker.cs", lines |-> <<UnityLines[2], UnityLines[3]>>],
    [path |-> "node_modules/dd/index.js", lines |-> <<WebLines[2]>>],
    [path |-> "README.md", lines |-> <<WebLines[2]>>],
    [path |-> "src/empty.ts", lines |-> <<"">>],
    [path |-> "src/plain.ts", lines |-> <<"console.log('hello');">>],
    [path |-> "src/note.ts", lines |-> <<"// DataDog setup", "">>] >>

Paths == {Catalogue[i].path : i \in DOMAIN Catalogue}
\* the files the projects of the scan are made of
ScanPaths == {Catalogue[i].path : i \in 1..6}
\* files with no content, no SDK keyword, a keyword but no SDK usage, and usage
QuietPaths == {"src/empty.ts", "src/plain.ts", "src/note.ts", "src/app.ts"}

\* the files of a project with more eligible files than the pool has workers:
\* one with a call of the SDK, the others without
PoolCatalogue == <<
    [path |-> "src/pool/a.ts", lines |-> <<WebLines[5]>>],
    [path |-> "src/pool/b.ts", lines |-> <<"console.log('b');">>],
    [path |-> "src/pool/c.ts", lines |-> <<"console.log('c');">>],
    [path |-> "src/pool/d.ts", lines |-> <<"console.log('d');">>],
    [path |-> "src/pool/e.ts", lines |-> <<"console.log('e');">>],
    [path |-> "src/pool/f.ts", lines |-> <<"console.log('f');">>],
    [path |-> "src/pool/g.ts", lines |-> <<"console.log('g');">>],
    [path |-> "src/pool/h.ts", lines |-> <<"console.log('h');">>],
    [path |-> "src/pool/i.ts", lines |-> <<"console.log('i');">>] >>

\* further files of the projects of the file system
TreeCatalogue == <<
    [path |-> "bin/run.ts", lines |-> <<WebLines[2]>>],
    [path |-> "src/old.ts", lines |-> <<WebLines[2]>>] >>

AllFiles == Catalogue \o PoolCatalogue \o TreeCatalogue
LinesOf(path) == AllFiles[CHOOSE i \in DOMAIN AllFiles : AllFiles[i].path = path].lines

\* what the file system and the detector do with a file
StatusOrder == <<"ok", "unreadable", "undecodable", "raises">>
Statuses == {StatusOrder[i] : i \in DOMAIN StatusOrder}

\* rglob order: the order of the catalogue
RECURSIVE files_in_order(_, _)
files_in_order(files, i) ==
    IF i > Len(AllFiles) THEN <<>>
    ELSE (IF AllFiles[i].path \in DOMAIN files /\ is_file_to_scan(AllFiles[i].path)
          THEN <<AllFiles[i].path>> ELSE <<>>)
         \o files_in_order(files, i + 1)

get_files_to_scan(files) == files_in_order(files, 1)

(***************************************************************************)
(* CodeScanner._scan_file: the task a worker runs for one file.            *)
(***************************************************************************)
read_file_content(path, status) ==
    IF status \in {"unreadable", "undecodable"}
    THEN [none |-> TRUE, text |-> ""]
    ELSE [none |-> FALSE, text |-> join(LinesOf(path), "\n")]

datadog_keywords == <<"datadog", "DD_RUM", "browser-rum", "browser-logs",
                      "addAction", "addError", "addTiming", "datadogRum",
                      "datadogLogs", "logger.info", "logger.error">>

\* a keyword check that lets every content through
has_any_content(text) == TRUE

has_datadog_content(text) ==
    LET content_lower == lower(text) IN
    \E k \in DOMAIN datadog_keywords : contains(content_lower, lower(datadog_keywords[k]))

\* a task that leaves on the findings the link the detector was given
keep_github_urls(file_path, found) == found

\* the findings of a call with the link of each one set to its own line
update_github_urls(file_path, found) ==
    [k \in 1..Len(found) |->
        [found[k] EXCEPT
            !.github_url = generate_file_url(file_path, found[k].line_number)]]

\* what the task returns when the detector call has returned
scan_file_return(file_path, call) ==
    [findings |-> update_github_urls(file_path, call.findings), self |-> call.self,
     called |-> TRUE,
     links |-> <<1>> \o [k \in 1..Len(call.findings) |-> call.findings[k].line_number]]

\* the detector call of the task
scan_file_detect(self, file_path, text) ==
    DD_call(self, file_path, split(text, "\n"), ProjectName,
            split(generate_file_url(file_path, 1), "#")[1])

\* the task returns [] without a call of the detector
scan_file_skip(self) == [findings |-> <<>>, self |-> self, called |-> FALSE, links |-> <<>>]

\* a task that returns what the detector found although it raised
scan_file_unguarded(self, path, status) ==
    LET read == read_file_content(path, status)
        file_path == ProjectPath \o "/" \o path
    IN IF read.none \/ read.text = "" THEN scan_file_skip(self)
       ELSE IF ~has_datadog_content(read.text) THEN scan_file_skip(self)
       ELSE scan_file_return(file_path, scan_file_detect(self, file_path, read.text))

\* what the task returns for the file, and the detector instance after it;
\* every exception below the try ends in "return []"
scan_file(self, path, status) ==
    LET read == read_file_content(path, status)
        file_path == ProjectPath \o "/" \o path
    IN IF read.none \/ read.text = "" THEN scan_file_skip(self)
       ELSE IF ~has_datadog_content(read.text) THEN scan_file_skip(self)
       ELSE IF status = "raises"
            THEN [findings |-> <<>>, self |-> self, called |-> TRUE, links |-> <<1>>]
       ELSE scan_file_return(file_path, scan_file_detect(self, file_path, read.text))

FreshDetector == NewDetector(DefaultContextLines, FALSE)

\* a pool with one worker per file
max_workers_uncapped(files) == Max(1, Len(files))

max_workers(files) == Min(PoolCap, Max(1, Len(files)))

(***************************************************************************)
(* DataDogDetectorFactory (detectors/detector_factory.py): the registry of *)
(* the language detectors.  A detector is named by its variant.            *)
(***************************************************************************)
\* self.detectors, in registration order
factory_detectors == <<"ts", "cs">>

\* get_detector_for_file's "return None"
NoDetector == "None"

get_supported_extensions(v) ==
    IF v = "ts" THEN <<".ts", ".tsx", ".js", ".jsx">> ELSE <<".cs">>

\* a detector that claims every file
can_handle_any_file(v, file_path) == TRUE

can_handle_file(v, file_path) ==
    LET file_ext == lower(suffix(file_path)) IN
    \E k \in DOMAIN get_supported_extensions(v) :
        get_supported_extensions(v)[k] = file_ext

RECURSIVE first_detector_from(_, _)
first_detector_from(i, file_path) ==
    IF i > Len(factory_detectors) THEN NoDetector
    ELSE IF can_handle_file(factory_detectors[i], file_path) THEN factory_detectors[i]
    ELSE first_detector_from(i + 1, file_path)

get_detector_for_file(file_path) == first_detector_from(1, file_path)

(***************************************************************************)
(* Bounds of the checked instances.                                        *)
(***************************************************************************)
MaxLines == 3        \* lines of a file handed to a detector
MaxRadius == 2       \* context radius
MaxTokenLen == 13    \* characters of a clientToken value
MaxFiles == 2        \* files of a project
MaxCalls == 3        \* detect_datadog_usage calls on the shared instance
MaxRoots == 3        \* directories given to scan_directories
MaxCandidates == 3   \* findings given to _deduplicate_findings

Range(f) == {f[i] : i \in DOMAIN f}

RECURSIVE SeqsUpTo(_, _)
SeqsUpTo(S, n) ==
    IF n = 0 THEN {<<>>}
    ELSE LET shorter == SeqsUpTo(S, n - 1)
         IN shorter \cup {Append(q, x) : q \in shorter, x \in S}

\* the contents a detector is run on: at least one line, as content.split('\n') gives
FileContents(v) ==
    SeqsUpTo(Range(IF v = "cs" THEN UnityLines ELSE WebLines), MaxLines) \ {<<>>}

FilePath == ProjectPath \o "/src/a.ts"
FileUrl == generate_file_url(FilePath, 0)

TokenBases == <<"pub0123456789abcdef", "pub0123456zyxwvutsr">>
TokenValues == {Slice(TokenBases[b], 0, n) : b \in DOMAIN TokenBases, n \in 0..MaxTokenLen}
InitLine(token) ==
    "datadogRum.init({ applicationId: 'abc123', clientToken: '" \o token
    \o "', site: 'datadoghq.com' });"

\* names given to RUM actions: one per interaction verb, and three without
ActionNames == <<"button-click", "user-tap", "swipe-left", "scroll-event", "text-input",
                 "item-select", "form-submit", "touch-start", "api-call",
                 "system-startup", "background-process">>

ActionLine(v, name) ==
    IF v = "cs"
    THEN "DatadogSdk.Instance.Rum.AddAction(RumUserActionType.Custom, \"" \o name \o "\");"
    ELSE "datadogRum.addAction('" \o name \o "');"

\* one line per kind of operation of the web pattern tables
WebKindLines == <<
    "import { datadogRum } from '@datadog/browser-rum';",
    "datadogRum.init({ applicationId: 'abc123' });",
    "datadogRum.addError(new Error('x'));",
    "datadogRum.addTiming('first_paint');",
    "logger.info('started');",
    "logger.error('Database connection failed');",
    "logger.warn('slow');",
    "logger.debug('x');" >>

\* one line per kind of operation of the C# pattern table
UnityKindLines == <<
    "using Datadog.Unity.Rum;",
    "DatadogSdk.InitWithPlatform(options);",
    "DatadogSdk.Instance.Rum.AddError(ex, \"load\");",
    "DatadogSdk.Instance.Rum.AddTiming(\"first_frame\");",
    "DatadogSdk.Instance.Rum.StartView(\"Menu\");",
    "DatadogSdk.Instance.Rum.AddAttribute(\"level\", 3);",
    "var logger = DatadogSdk.Instance.CreateLogger(options);",
    "logger.Info(\"started\");",
    "logger.Error(\"failed\");",
    "logger.Warn(\"slow\");",
    "logger.Debug(\"x\");",
    "DatadogSdk.Instance.SetUserInfo(\"id\", \"name\");",
    "DatadogSdk.Instance.AddLogsAttribute(\"k\", \"v\");",
    "DatadogSdk.Instance.ClearAllData();" >>

CategoryLines(v) ==
    {ActionLine(v, ActionNames[k]) : k \in DOMAIN ActionNames}
    \cup Range(IF v = "cs" THEN UnityKindLines ELSE WebKindLines)

\* the line alone, and between two comment lines
CategoryContents(v) ==
    {<<line>> : line \in CategoryLines(v)}
    \cup {<<"// Test file", line, "// End">> : line \in CategoryLines(v)}

Threads == {"worker-1", "worker-2"}

\* the paths the registry is asked about: file names with and without
\* directories and inner dots, and extensions of both detectors, of neither,
\* in other letter case, and none
RegistryStems == {"a", "src/App", "Assets/Tracker", "x.test", ".hidden", "lib/v1.2/mod"}
RegistryExtensions ==
    {".ts", ".tsx", ".js", ".jsx", ".cs", ".TS", ".Cs", ".py", ".css", ""}
RegistryFiles == {stem \o ext : stem \in RegistryStems, ext \in RegistryExtensions}
SharedFiles == {i \in DOMAIN Catalogue : is_file_to_scan(Catalogue[i].path)}

(***************************************************************************)
(* Initial values of the parts a specification does not use.               *)
(***************************************************************************)
DetectIdle ==
    /\ content = <<"">> /\ variant = "legacy" /\ context_lines = DefaultContextLines
    /\ findings = <<>> /\ dpc = "idle"
ExtractIdle == tokens = <<"", "">> /\ extracted = <<>> /\ epc = "idle"
ScanIdle ==
    /\ project_files = <<>> /\ files_to_scan = <<>> /\ futures = <<>>
    /\ scan_findings = <<>> /\ files_scanned = 0 /\ spc = "idle"
    /\ detect_calls = <<>>
SharedIdle ==
    /\ tpc = [t \in Threads |-> "idle"] /\ tfile = [t \in Threads |-> 0]
    /\ timported = [t \in Threads |-> <<>>] /\ log = <<>>
RegistryIdle == reg_file = "" /\ reg_detector = NoDetector /\ rpc = "idle"
DedupIdle == dedup_input = <<>> /\ dedup_result = <<>> /\ upc = "idle"
DirectoriesIdle ==
    /\ dir_calls = <<>> /\ dir_call = 0 /\ user_ignore = {} /\ scan_ignore = {}
    /\ dir_projects = <<>>
    /\ dir_project = 0 /\ dir_files = <<>> /\ dir_tasks = <<>> /\ dir_pool = "none"
    /\ dir_findings = <<>>
    /\ all_findings = <<>> /\ dir_scanned = 0 /\ dir_results = <<>> /\ apc = "idle"
LinkerIdle == branch_cache = <<>> /\ lpc = <<>> /\ lbranch = <<>> /\ llink = <<>>
DiscoverIdle ==
    /\ target_dirs = <<>> /\ projects = <<>> /\ root_checks = <<>> /\ scanned = <<>>
    /\ kpc = "idle"

(***************************************************************************)
(* Detection of one file: detector.detect_datadog_usage(...).              *)
(***************************************************************************)
DetectInit ==
    /\ variant \in {"legacy", "ts", "cs"}
    /\ content \in FileContents(variant)
    /\ context_lines \in 0..MaxRadius
    /\ findings = <<>>
    /\ dpc = "ready"
    /\ detector = NewDetector(context_lines, FALSE)
    /\ ExtractIdle /\ ScanIdle /\ SharedIdle /\ RegistryIdle /\ DiscoverIdle /\ DedupIdle /\ LinkerIdle /\ DirectoriesIdle

DetectUsage ==
    /\ dpc = "ready"
    /\ findings' = detect_datadog_usage(variant, FilePath, content, context_lines,
                                        detector.detailed_extraction,
                                        ProjectName, FileUrl)
    /\ dpc' = "done"
    /\ UNCHANGED <<content, variant, context_lines, evars, svars, detector, tvars, rvars, kvars, uvars,
                   lvars, avars>>

DetectNext == DetectUsage

SpecDetect == DetectInit /\ [][DetectNext]_vars

\* detection of a file with one line of a known kind of operation
CategoriseInit ==
    /\ variant \in {"legacy", "ts", "cs"}
    /\ content \in CategoryContents(variant)
    /\ context_lines = DefaultContextLines
    /\ findings = <<>>
    /\ dpc = "ready"
    /\ detector = NewDetector(context_lines, FALSE)
    /\ ExtractIdle /\ ScanIdle /\ SharedIdle /\ RegistryIdle /\ DiscoverIdle /\ DedupIdle /\ LinkerIdle /\ DirectoriesIdle

SpecCategorise == CategoriseInit /\ [][DetectNext]_vars

\* lines with two operations of which the second carries the longer data,
\* lines with one operation, and lines with none
OrderLines(v) ==
    IF v = "cs"
    THEN <<"// c",
           "DatadogSdk.Instance.Rum.AddTiming(\"t\"); logger.Info(\"longer message\");",
           "logger.Warn(\"x\");">>
    ELSE <<"// c",
           "datadogRum.addAction('a'); logger.info('longer message');",
           "logger.error('x');">>

\* detection of a file in which deduplication replaces kept findings
OrderInit ==
    /\ variant \in {"legacy", "ts", "cs"}
    /\ content \in SeqsUpTo(Range(OrderLines(variant)), MaxLines) \ {<<>>}
    /\ context_lines = DefaultContextLines
    /\ findings = <<>>
    /\ dpc = "ready"
    /\ detector = NewDetector(context_lines, FALSE)
    /\ ExtractIdle /\ ScanIdle /\ SharedIdle /\ RegistryIdle /\ DiscoverIdle /\ DedupIdle /\ LinkerIdle /\ DirectoriesIdle

SpecOrder == OrderInit /\ [][DetectNext]_vars

\* lines whose calls carry key-value pairs and string literals, a call of an
\* imported symbol, and a line without a call
DetailedLines(v) ==
    IF v = "cs"
    THEN {UnityLines[i] : i \in DOMAIN UnityLines}
         \cup {"DatadogSdk.Instance.Rum.AddAttribute(\"level\", 3);"}
    ELSE {"// c",
          InitLine("pub0123456789abcdef"),
          "datadogRum.addAction('checkout', { amount: 42, currency: 'EUR' });",
          "import { addAction as track } from '@datadog/browser-rum';",
          "track('x');",
          "logger.info('started');"}

\* lines that match the pattern table and hold none or a part of what the
\* extraction looks for, and a line that matches nothing
PartialLines(v) ==
    IF v = "cs"
    THEN <<"DatadogSdk.Instance.Rum.AddAction(",
           "logger.Info(",
           "DatadogSdk.Instance.Rum.AddError(ex);",
           "// c">>
    ELSE <<"datadogRum.init({",
           "datadogRum.addAction(",
           "datadogRum.addError(err);",
           "// c">>

\* detection of a file with calls spread over several lines
PartialInit ==
    /\ variant \in {"legacy", "ts", "cs"}
    /\ content \in SeqsUpTo(Range(PartialLines(variant)), MaxLines) \ {<<>>}
    /\ context_lines = DefaultContextLines
    /\ findings = <<>>
    /\ dpc = "ready"
    /\ detector = NewDetector(context_lines, FALSE)
    /\ ExtractIdle /\ ScanIdle /\ SharedIdle /\ RegistryIdle /\ DiscoverIdle /\ DedupIdle
    /\ LinkerIdle /\ DirectoriesIdle

SpecPartial == PartialInit /\ [][DetectNext]_vars

\* detection with detailed extraction disabled and enabled
DetailedInit ==
    /\ variant \in {"legacy", "ts", "cs"}
    /\ content \in {<<a>> : a \in DetailedLines(variant)}
                   \cup {<<a, b>> : a, b \in DetailedLines(variant)}
    /\ context_lines = DefaultContextLines
    /\ findings = <<>>
    /\ dpc = "ready"
    /\ \E detailed \in BOOLEAN : detector = NewDetector(context_lines, detailed)
    /\ ExtractIdle /\ ScanIdle /\ SharedIdle /\ RegistryIdle /\ DiscoverIdle /\ DedupIdle /\ LinkerIdle /\ DirectoriesIdle

SpecDetailed == DetailedInit /\ [][DetectNext]_vars

(***************************************************************************)
(* Extraction from initialisation lines:                                   *)
(* detector._extract_data_from_line(line, 'init').                         *)
(***************************************************************************)
ExtractInit ==
    /\ tokens \in TokenValues \X TokenValues
    /\ extracted = <<>>
    /\ epc = "ready"
    /\ detector = NewDetector(DefaultContextLines, FALSE)
    /\ DetectIdle /\ ScanIdle /\ SharedIdle /\ RegistryIdle /\ DiscoverIdle /\ DedupIdle /\ LinkerIdle /\ DirectoriesIdle

ExtractData ==
    /\ epc = "ready"
    /\ extracted' = << DD_extract_data_from_line(InitLine(tokens[1]), "init"),
                       DD_extract_data_from_line(InitLine(tokens[2]), "init") >>
    /\ epc' = "done"
    /\ UNCHANGED <<tokens, dvars, svars, detector, tvars, rvars, kvars, uvars, lvars, avars>>

ExtractNext == ExtractData

SpecExtract == ExtractInit /\ [][ExtractNext]_vars

(***************************************************************************)
(* The scan of one project: CodeScanner._scan_project, its thread pool     *)
(* and the _scan_file tasks.                                               *)
(***************************************************************************)
ProjectsOver(paths) ==
    UNION {[S -> Statuses] : S \in {T \in SUBSET paths : Cardinality(T) <= MaxFiles}}

ProjectFiles == ProjectsOver(ScanPaths)

ScanInit ==
    /\ project_files \in ProjectFiles
    /\ files_to_scan = <<>>
    /\ futures = <<>>
    /\ scan_findings = <<>>
    /\ files_scanned = 0
    /\ spc = "start"
    /\ detect_calls = <<>>
    /\ detector = FreshDetector
    /\ DetectIdle /\ ExtractIdle /\ SharedIdle /\ RegistryIdle /\ DiscoverIdle /\ DedupIdle /\ LinkerIdle /\ DirectoriesIdle

\* _scan_project up to the submission of the tasks
ScanProject ==
    /\ spc = "start"
    /\ files_to_scan' = get_files_to_scan(project_files)
    /\ futures' = [p \in Range(files_to_scan') |->
                      [state |-> "pending", result |-> <<>>, raised |-> FALSE, links |-> <<>>]]
    /\ spc' = IF Len(files_to_scan') = 0 THEN "done" ELSE "collect"
    /\ UNCHANGED <<project_files, scan_findings, files_scanned, detect_calls, dvars,
                   evars, detector, tvars, rvars, kvars, uvars, lvars, avars>>

Running == {p \in DOMAIN futures : futures[p].state = "running"}

\* a worker of the pool takes the oldest submitted task: the tasks wait in
\* a first-in first-out queue in the order of their submission
StartTask(p) ==
    /\ spc = "collect"
    /\ futures[p].state = "pending"
    /\ \A k \in 1..(IndexOf(files_to_scan, p) - 1) : futures[files_to_scan[k]].state # "pending"
    /\ Cardinality(Running) < max_workers(files_to_scan)
    /\ futures' = [futures EXCEPT ![p].state = "running"]
    /\ UNCHANGED <<project_files, files_to_scan, scan_findings, files_scanned, spc,
                   detect_calls, dvars, evars, detector, tvars, rvars, kvars, uvars,
                   lvars, avars>>

\* the worker runs _scan_file to its return
RunTask(p) ==
    /\ spc = "collect"
    /\ futures[p].state = "running"
    /\ \E done \in {scan_file(detector, p, project_files[p])} :
          /\ futures' = [futures EXCEPT ![p] = [state |-> "done",
                                                 result |-> done.findings,
                                                 raised |-> FALSE,
                                                 links |-> done.links]]
          /\ detector' = done.self
          /\ detect_calls' = IF done.called THEN Append(detect_calls, p)
                             ELSE detect_calls
    /\ UNCHANGED <<project_files, files_to_scan, scan_findings, files_scanned, spc,
                   dvars, evars, tvars, rvars, kvars, uvars, lvars, avars>>

\* the orchestrator takes a completed future from as_completed
Collect(p) ==
    /\ spc = "collect"
    /\ futures[p].state = "done"
    /\ futures' = [futures EXCEPT ![p].state = "collected"]
    /\ IF futures[p].raised
       THEN UNCHANGED <<scan_findings, files_scanned>>
       ELSE /\ scan_findings' = scan_findings \o futures[p].result
            /\ files_scanned' = files_scanned + 1
    /\ UNCHANGED <<project_files, files_to_scan, spc, detect_calls, dvars, evars,
                   detector, tvars, rvars, kvars, uvars, lvars, avars>>

\* the pool is shut down and _scan_project returns its findings
ReturnFindings ==
    /\ spc = "collect"
    /\ \A p \in DOMAIN futures : futures[p].state = "collected"
    /\ spc' = "done"
    /\ UNCHANGED <<project_files, files_to_scan, futures, scan_findings, files_scanned,
                   detect_calls, dvars, evars, detector, tvars, rvars, kvars, uvars,
                   lvars, avars>>

ScanNext ==
    \/ ScanProject
    \/ \E p \in DOMAIN futures : StartTask(p)
    \/ \E p \in DOMAIN futures : RunTask(p)
    \/ \E p \in DOMAIN futures : Collect(p)
    \/ ReturnFindings

SpecScan == ScanInit /\ [][ScanNext]_vars

\* the scan of a project made of files with little or nothing in them
QuietInit ==
    /\ project_files \in ProjectsOver(QuietPaths)
    /\ files_to_scan = <<>>
    /\ futures = <<>>
    /\ scan_findings = <<>>
    /\ files_scanned = 0
    /\ spc = "start"
    /\ detect_calls = <<>>
    /\ detector = FreshDetector
    /\ DetectIdle /\ ExtractIdle /\ SharedIdle /\ RegistryIdle /\ DiscoverIdle /\ DedupIdle /\ LinkerIdle /\ DirectoriesIdle

SpecQuiet == QuietInit /\ [][ScanNext]_vars

\* projects with no eligible file, with fewer than the pool can hold, and
\* with one more: the first n files of PoolCatalogue and two ineligible files
PoolProjects ==
    {[p \in {PoolCatalogue[i].path : i \in 1..n} \cup {"README.md", "node_modules/dd/index.js"}
         |-> "ok"] : n \in 0..Len(PoolCatalogue)}

PoolInit ==
    /\ project_files \in PoolProjects
    /\ files_to_scan = <<>>
    /\ futures = <<>>
    /\ scan_findings = <<>>
    /\ files_scanned = 0
    /\ spc = "start"
    /\ detect_calls = <<>>
    /\ detector = FreshDetector
    /\ DetectIdle /\ ExtractIdle /\ SharedIdle /\ RegistryIdle /\ DiscoverIdle /\ DedupIdle /\ LinkerIdle /\ DirectoriesIdle

SpecPool == PoolInit /\ [][ScanNext]_vars

(***************************************************************************)
(* One DataDogDetector instance called by several threads.                 *)
(***************************************************************************)
SharedInit ==
    /\ detector = NewDetector(DefaultContextLines, FALSE)
    /\ tpc = [t \in Threads |-> "idle"]
    /\ tfile = [t \in Threads |-> 0]
    /\ timported = [t \in Threads |-> <<>>]
    /\ log = <<>>
    /\ DetectIdle /\ ExtractIdle /\ ScanIdle /\ RegistryIdle /\ DiscoverIdle /\ DedupIdle /\ LinkerIdle /\ DirectoriesIdle

CallsBegun == Len(log) + Cardinality({t \in Threads : tpc[t] = "second_pass"})

\* thread t enters detect_datadog_usage for file f and runs the first pass
BeginDetect(t, f) ==
    /\ tpc[t] = "idle"
    /\ CallsBegun < MaxCalls
    /\ LET first == DD_first_pass(detector, Catalogue[f].lines) IN
          /\ timported' = [timported EXCEPT ![t] = first.imported_methods]
          /\ detector' = first.self
    /\ tfile' = [tfile EXCEPT ![t] = f]
    /\ tpc' = [tpc EXCEPT ![t] = "second_pass"]
    /\ UNCHANGED <<log, dvars, evars, svars, rvars, kvars, uvars, lvars, avars>>

\* thread t runs the second pass and returns
EndDetect(t) ==
    /\ tpc[t] = "second_pass"
    /\ LET file_path == ProjectPath \o "/" \o Catalogue[tfile[t]].path IN
       log' = Append(log, << tfile[t],
                             DD_second_pass(detector, file_path, Catalogue[tfile[t]].lines,
                                            timported[t], ProjectName,
                                            generate_file_url(file_path, 0)) >>)
    /\ tpc' = [tpc EXCEPT ![t] = "idle"]
    /\ tfile' = [tfile EXCEPT ![t] = 0]
    /\ timported' = [timported EXCEPT ![t] = <<>>]
    /\ UNCHANGED <<detector, dvars, evars, svars, rvars, kvars, uvars, lvars, avars>>

SharedNext ==
    \/ \E t \in Threads, f \in SharedFiles : BeginDetect(t, f)
    \/ \E t \in Threads : EndDetect(t)

SpecShared == SharedInit /\ [][SharedNext]_vars

(***************************************************************************)
(* The registry asked for the detector of one file:                        *)
(* factory.get_detector_for_file(file_path).                               *)
(***************************************************************************)
RegistryInit ==
    /\ reg_file \in RegistryFiles
    /\ reg_detector = NoDetector
    /\ rpc = "ready"
    /\ detector = NewDetector(DefaultContextLines, FALSE)
    /\ DetectIdle /\ ExtractIdle /\ ScanIdle /\ SharedIdle /\ DiscoverIdle /\ DedupIdle /\ LinkerIdle /\ DirectoriesIdle

GetDetector ==
    /\ rpc = "ready"
    /\ reg_detector' = get_detector_for_file(reg_file)
    /\ rpc' = "done"
    /\ UNCHANGED <<reg_file, dvars, evars, svars, detector, tvars, kvars, uvars, lvars, avars>>

RegistryNext == GetDetector

SpecRegistry == RegistryInit /\ [][RegistryNext]_vars

(***************************************************************************)
(* Project discovery: CodeScanner.scan_directories and _discover_projects  *)
(* on a file system given as directory |-> its entries in listing order.   *)
(***************************************************************************)
Entry(name, is_dir) == [name |-> name, is_dir |-> is_dir]

Listing ==
    ("/ws" :> <<Entry("app", TRUE), Entry("game", TRUE), Entry(".hidden", TRUE),
                Entry("docs", TRUE), Entry("notes.txt", FALSE)>>)
    @@ ("/ws/app" :> <<Entry("package.json", FALSE), Entry("src", TRUE)>>)
    @@ ("/ws/app/src" :> <<>>)
    @@ ("/ws/game" :> <<Entry("Assets", TRUE), Entry("ProjectSettings", TRUE)>>)
    @@ ("/ws/game/Assets" :> <<>>)
    @@ ("/ws/game/ProjectSettings" :> <<>>)
    @@ ("/ws/.hidden" :> <<Entry("src", TRUE)>>)
    @@ ("/ws/.hidden/src" :> <<>>)
    @@ ("/ws/docs" :> <<Entry("readme.md", FALSE)>>)
    @@ ("/lib" :> <<Entry("Lib.csproj", FALSE)>>)
    @@ ("/alt" :> <<Entry("app", TRUE)>>)
    @@ ("/alt/app" :> <<Entry("package.json", FALSE), Entry("src", TRUE)>>)
    @@ ("/alt/app/src" :> <<>>)
    @@ ("/empty" :> <<>>)

\* the dependencies the package.json files declare
Dependencies == "/ws/app/package.json" :> {"react"}

\* the directories no file system entry stands for
MissingRoots == {"/missing", "/ws/gone"}
Roots == {"/ws", "/ws/app", "/lib", "/empty", "/ws/notes.txt"} \cup MissingRoots

\* Path.exists() on a file system without missing entries
path_always_exists(path) == TRUE

\* Path.exists()
path_exists(path) ==
    \/ path \in DOMAIN Listing
    \/ \E d \in DOMAIN Listing :
          \E k \in DOMAIN Listing[d] : d \o "/" \o Listing[d][k].name = path

is_dir(path) == path \in DOMAIN Listing
\* the entries of path.iterdir() and path.glob: none unless path is a directory
entries_of(path) == IF is_dir(path) THEN Listing[path] ELSE <<>>
\* Path.name
path_name(path) == LET parts == split(path, "/") IN parts[Len(parts)]

indicators == <<"package.json", "Assets", "ProjectSettings", "*.csproj", "src",
                "tsconfig.json", "next.config.js">>

glob(path, pattern) ==
    SelectSeq(entries_of(path), LAMBDA e : fnmatch(e.name, pattern))

is_project_root(path) ==
    \E k \in DOMAIN indicators :
        IF contains(indicators[k], "*")
        THEN glob(path, indicators[k]) # <<>>
        ELSE path_exists(path \o "/" \o indicators[k])

detect_project_type(project_path) ==
    IF path_exists(project_path \o "/package.json")
    THEN LET file == project_path \o "/package.json"
             deps == IF file \in DOMAIN Dependencies THEN Dependencies[file] ELSE {}
         IN IF "next" \in deps THEN "nextjs"
            ELSE IF "react" \in deps THEN "react" ELSE "node"
    ELSE IF path_exists(project_path \o "/Assets")
            /\ path_exists(project_path \o "/ProjectSettings")
    THEN "unity"
    ELSE IF glob(project_path, "*.csproj") # <<>> THEN "unity"
    ELSE "unknown"

generate_project_url(project_name) == BaseUrl \o "/" \o project_name

ProjectInfo(path) ==
    [name |-> path_name(path), path |-> path,
     project_type |-> detect_project_type(path),
     github_url |-> generate_project_url(path_name(path))]

\* the loop over target_path.iterdir() from entry k on: the projects found
\* and the directories _is_project_root was asked about
RECURSIVE discover_in(_, _)
discover_in(target_path, k) ==
    IF k > Len(entries_of(target_path)) THEN [projects |-> <<>>, checks |-> <<>>]
    ELSE LET item == entries_of(target_path)[k]
             item_path == target_path \o "/" \o item.name
             rest == discover_in(target_path, k + 1)
         IN IF item.is_dir /\ ~startswith(item.name, ".")
            THEN [projects |-> (IF is_project_root(item_path)
                                THEN <<ProjectInfo(item_path)>> ELSE <<>>)
                               \o rest.projects,
                  checks |-> <<item_path>> \o rest.checks]
            ELSE rest

\* one round of the loop over target_dirs; iterdir() of a path that is not a
\* directory raises
discover_root(target_dir) ==
    IF ~path_exists(target_dir)
    THEN [projects |-> <<>>, checks |-> <<>>, raised |-> FALSE]
    ELSE IF is_project_root(target_dir)
    THEN [projects |-> <<ProjectInfo(target_dir)>>, checks |-> <<target_dir>>,
          raised |-> FALSE]
    ELSE IF ~is_dir(target_dir)
    THEN [projects |-> <<>>, checks |-> <<target_dir>>, raised |-> TRUE]
    ELSE LET below == discover_in(target_dir, 1)
         IN [projects |-> below.projects, checks |-> <<target_dir>> \o below.checks,
             raised |-> FALSE]

\* _discover_projects from the i-th directory on, with what was found so far
RECURSIVE discover_from(_, _, _)
discover_from(dirs, i, found) ==
    IF i > Len(dirs) \/ found.raised THEN found
    ELSE LET round == discover_root(dirs[i])
         IN discover_from(dirs, i + 1,
                          [projects |-> found.projects \o round.projects,
                           checks |-> found.checks \o round.checks,
                           raised |-> round.raised])

discover_projects(dirs) ==
    discover_from(dirs, 1, [projects |-> <<>>, checks |-> <<>>, raised |-> FALSE])

DiscoverInit ==
    /\ target_dirs \in SeqsUpTo(Roots, MaxRoots)
    /\ projects = <<>>
    /\ root_checks = <<>>
    /\ scanned = <<>>
    /\ kpc = "start"
    /\ detector = FreshDetector
    /\ DetectIdle /\ ExtractIdle /\ ScanIdle /\ SharedIdle /\ RegistryIdle /\ DedupIdle /\ LinkerIdle /\ DirectoriesIdle

\* scan_directories up to the loop over the projects; an exception of
\* _discover_projects leaves scan_directories
DiscoverProjects ==
    /\ kpc = "start"
    /\ \E found \in {discover_projects(target_dirs)} :
          /\ root_checks' = found.checks
          /\ projects' = IF found.raised THEN <<>> ELSE found.projects
          /\ kpc' = IF found.raised THEN "raised"
                    ELSE IF found.projects = <<>> THEN "done" ELSE "scan"
    /\ UNCHANGED <<target_dirs, scanned, dvars, evars, svars, detector, tvars, rvars, uvars, lvars, avars>>

\* one round of "for project in projects": the project goes to _scan_project
ScanDiscovered ==
    /\ kpc = "scan"
    /\ scanned' = Append(scanned, projects[Len(scanned) + 1].path)
    /\ kpc' = IF Len(scanned') = Len(projects) THEN "done" ELSE "scan"
    /\ UNCHANGED <<target_dirs, projects, root_checks, dvars, evars, svars, detector,
                   tvars, rvars, uvars, lvars, avars>>

DiscoverNext == DiscoverProjects \/ ScanDiscovered

SpecDiscover == DiscoverInit /\ [][DiscoverNext]_vars

(***************************************************************************)
(* Deduplication of a list of candidates: _deduplicate_findings(findings). *)
(***************************************************************************)
\* data_being_sent of candidates: of pattern-table matches, short, of the
\* same length with other content, and longer; and of a call of an imported
\* symbol, shorter than all of them but with a method_name
CandidateData == {
    <<<<"parameters", "'a'">>>>,
    <<<<"parameters", "'b'">>>>,
    <<<<"parameters", "'a'">>, <<"log_message", "a">>>>,
    <<<<"method_name", "t">>>> }

CandidateKeys == {<<"/p/a.ts", 1>>, <<"/p/a.ts", 2>>, <<"/p/b.ts", 1>>}

Candidates ==
    {Finding(key[1], key[2], "x", "custom_attribute", data, "system_data", <<"x">>,
             ProjectName, BaseUrl, NoParams) : key \in CandidateKeys, data \in CandidateData}

DedupInit ==
    /\ dedup_input \in SeqsUpTo(Candidates, MaxCandidates)
    /\ dedup_result = <<>>
    /\ upc = "ready"
    /\ detector = FreshDetector
    /\ DetectIdle /\ ExtractIdle /\ ScanIdle /\ SharedIdle /\ RegistryIdle /\ DiscoverIdle /\ LinkerIdle /\ DirectoriesIdle

Deduplicate ==
    /\ upc = "ready"
    /\ dedup_result' = deduplicate_findings(dedup_input)
    /\ upc' = "done"
    /\ UNCHANGED <<dedup_input, dvars, evars, svars, detector, tvars, rvars, kvars, lvars, avars>>

DedupNext == Deduplicate

SpecDedup == DedupInit /\ [][DedupNext]_vars

(***************************************************************************)
(* GitHubLinker.get_branch_for_project called by the tasks of one pool:    *)
(* every _scan_file task that reaches the detector calls generate_file_url *)
(* with project.path before detection and again for its finding.           *)
(***************************************************************************)
MaxTasks == 3
LinkTasks == 1..MaxTasks
\* what "git branch --show-current" prints in the project directory
CurrentBranch == "develop"
\* the last part of what "git symbolic-ref refs/remotes/origin/HEAD" prints
RemoteHead == "trunk"

\* the branch computed on a cache miss; a git call prints its answer, or
\* fails: non-zero return code, empty output, timeout, no git
branch_of(show_current, symbolic_ref) ==
    IF show_current THEN CurrentBranch
    ELSE IF symbolic_ref THEN RemoteHead
    ELSE DefaultBranch

LinkerInit ==
    /\ branch_cache = <<>>
    /\ lpc = [w \in LinkTasks |-> "ready"]
    /\ lbranch = [w \in LinkTasks |-> PyNone]
    /\ llink = [w \in LinkTasks |-> PyNone]
    /\ DetectIdle /\ ExtractIdle /\ ScanIdle /\ SharedIdle /\ RegistryIdle /\ DiscoverIdle
    /\ DedupIdle /\ DirectoriesIdle
    /\ detector = FreshDetector

\* the call with the placeholder line: "if project_path in self._branch_cache"
LookUp(w) ==
    /\ lpc[w] = "ready"
    /\ IF has(branch_cache, ProjectPath)
       THEN /\ lbranch' = [lbranch EXCEPT ![w] = get(branch_cache, ProjectPath, PyNone)]
            /\ lpc' = [lpc EXCEPT ![w] = "cached"]
       ELSE /\ lpc' = [lpc EXCEPT ![w] = "git"]
            /\ UNCHANGED lbranch
    /\ UNCHANGED <<branch_cache, llink, dvars, evars, svars, detector, tvars, rvars, kvars,
                   uvars, avars>>

\* the subprocess calls of a task that missed the cache
RunGit(w, show_current, symbolic_ref) ==
    /\ lpc[w] = "git"
    /\ lbranch' = [lbranch EXCEPT ![w] = branch_of(show_current, symbolic_ref)]
    /\ lpc' = [lpc EXCEPT ![w] = "store"]
    /\ UNCHANGED <<branch_cache, llink, dvars, evars, svars, detector, tvars, rvars, kvars,
                   uvars, avars>>

\* self._branch_cache[project_path] = branch
Store(w) ==
    /\ lpc[w] = "store"
    /\ branch_cache' = put(branch_cache, ProjectPath, lbranch[w])
    /\ lpc' = [lpc EXCEPT ![w] = "cached"]
    /\ UNCHANGED <<lbranch, llink, dvars, evars, svars, detector, tvars, rvars, kvars,
                   uvars, avars>>

\* the call for the finding of the task, which finds the path in the cache
LinkFinding(w) ==
    /\ lpc[w] = "cached"
    /\ llink' = [llink EXCEPT ![w] = get(branch_cache, ProjectPath, PyNone)]
    /\ lpc' = [lpc EXCEPT ![w] = "returned"]
    /\ UNCHANGED <<branch_cache, lbranch, dvars, evars, svars, detector, tvars, rvars,
                   kvars, uvars, avars>>

LinkerNext ==
    \/ \E w \in LinkTasks : LookUp(w)
    \/ \E w \in LinkTasks, show_current \in BOOLEAN, symbolic_ref \in BOOLEAN :
          RunGit(w, show_current, symbolic_ref)
    \/ \E w \in LinkTasks : Store(w)
    \/ \E w \in LinkTasks : LinkFinding(w)

SpecLinker == LinkerInit /\ [][LinkerNext]_vars

(***************************************************************************)
(* CodeScanner.scan_directories called on one scanner, once or again: the  *)
(* orchestrator thread discovers the projects, sets up the ignore patterns *)
(* and scans the projects one after the other, each with a pool of its own.*)
(***************************************************************************)
\* ConfigManager.DEFAULT_IGNORE_PATTERNS
DEFAULT_IGNORE_PATTERNS ==
    [react |-> {"node_modules/**", "build/**", "dist/**", ".next/**", "coverage/**",
                "*.min.js", "*.bundle.js"},
     nextjs |-> {"node_modules/**", "build/**", "dist/**", ".next/**", "out/**",
                 "coverage/**", "*.min.js", "*.bundle.js"},
     unity |-> {"Library/**", "Temp/**", "Build/**", "Builds/**", "obj/**", "bin/**",
                "*.meta"},
     node |-> {"node_modules/**", "build/**", "dist/**", "coverage/**", "*.min.js",
               "*.bundle.js"}]

get_ignore_patterns_for_project(project_type) ==
    IF project_type \in DOMAIN DEFAULT_IGNORE_PATTERNS
    THEN DEFAULT_IGNORE_PATTERNS[project_type] ELSE {}

\* scan_config.ignore_patterns after setup_ignore_patterns; the list is made
\* from a set and only membership in it is used
setup_ignore_patterns(patterns, found) ==
    patterns \cup UNION {get_ignore_patterns_for_project(found[i].project_type) :
                             i \in DOMAIN found}

\* a setup that starts from the patterns the scanner was created with and
\* takes the defaults of one project type
setup_ignore_patterns_of(patterns, project_type) ==
    patterns \cup get_ignore_patterns_for_project(project_type)

\* _should_ignore_file with config.scan.ignore_patterns = patterns
should_ignore(patterns, relative_path_str) ==
    LET parts == split(relative_path_str, "/") IN
    \E pat \in patterns :
        \/ fnmatch(relative_path_str, pat)
        \/ \E j \in DOMAIN parts : fnmatch(parts[j], rstrip_chars(pat, {"/", "*"}))

\* the files rglob yields below the project roots, in its order
FileTree ==
    ("/ws/app" :> <<"src/rum.ts", "bin/run.ts", "README.md">>)
    @@ ("/ws/game" :> <<"Assets/Tracker.cs", "src/call.tsx">>)
    @@ ("/ws/.hidden" :> <<>>)
    @@ ("/alt/app" :> <<"bin/run.ts", "src/old.ts", "src/app.ts">>)
    @@ ("/lib" :> <<>>)

\* files that cannot be read
Unreadable == {"/alt/app/src/old.ts"}

files_of(project_path) ==
    IF project_path \in DOMAIN FileTree THEN FileTree[project_path] ELSE <<>>

\* _get_files_to_scan(project_path) with config.scan.ignore_patterns = patterns
files_to_scan_of(patterns, project_path) ==
    SelectSeq(files_of(project_path),
              LAMBDA path :
                  /\ \E k \in DOMAIN file_extensions : suffix(path) = file_extensions[k]
                  /\ ~should_ignore(patterns, path)
                  /\ is_datadog_related_file(project_path \o "/" \o path))

\* str(Path(path).parent)
path_parent(path) ==
    IF rfind(path, "/") <= 1 THEN "/" ELSE SubSeq(path, 1, rfind(path, "/") - 1)

\* generate_file_url(file_path, line_number, scan_root, project_path) for a
\* file below scan_root in a directory that is not a git checkout
file_url(file_path, line_number, scan_root) ==
    LET relative_path == split(Slice(file_path, Len(scan_root) + 1, Len(file_path)), "/")
        file_url_ == BaseUrl \o "/" \o relative_path[1] \o "/blob/" \o DefaultBranch
                     \o "/" \o join(Tail(relative_path), "/")
    IN IF line_number > 0 THEN file_url_ \o "#L" \o ToString(line_number) ELSE file_url_

\* the findings of a call with the link of each one set to its own line
with_links(scan_root, file_path, found) ==
    [k \in 1..Len(found) |->
        [found[k] EXCEPT !.github_url = file_url(file_path, found[k].line_number, scan_root)]]

\* what the task returns when the detector call has returned
scan_detected(scan_root, file_path, call) ==
    [findings |-> with_links(scan_root, file_path, call.findings), self |-> call.self]

\* _scan_file from the content of the file on
scan_text(project_name, scan_root, file_path, self, text) ==
    IF text = "" \/ ~has_datadog_content(text) THEN [findings |-> <<>>, self |-> self]
    ELSE scan_detected(scan_root, file_path,
                       DD_call(self, file_path, split(text, "\n"), project_name,
                               split(file_url(file_path, 1, scan_root), "#")[1]))

\* _scan_file(file_path, project): the findings it returns and the
\* detector instance after it
scan_file_in(project, self, path) ==
    IF (project.path \o "/" \o path) \in Unreadable THEN [findings |-> <<>>, self |-> self]
    ELSE scan_text(project.name, path_parent(project.path), project.path \o "/" \o path,
                   self, join(LinesOf(path), "\n"))

\* _scan_file of every file of the tree on a detector as it is created,
\* computed once
FreshScans ==
    [pp \in DOMAIN FileTree |->
        [k \in DOMAIN FileTree[pp] |->
            scan_file_in([name |-> path_name(pp), path |-> pp], FreshDetector,
                         FileTree[pp][k])]]

\* _scan_file(file_path, project) on the detector instance self
task_return(project, self, path) ==
    IF self = FreshDetector
    THEN FreshScans[project.path][IndexOf(FileTree[project.path], path)]
    ELSE scan_file_in(project, self, path)

\* a list that becomes the list it is extended with
replaced_by(list, more) == more

\* findings.extend(file_findings), all_findings.extend(project_findings)
extend(list, more) == list \o more

\* the directories given to scan_directories, the lists of them given to
\* one call, and the calls made on one scanner
DirRoots == {"/ws", "/alt", "/ws/game"}
TargetLists == {<<r>> : r \in DirRoots} \cup {<<r, q>> : r, q \in DirRoots}
DirCalls == {<<a>> : a \in TargetLists} \cup {<<a, b>> : a, b \in TargetLists}
\* config.scan.ignore_patterns of the configuration the scanner is created with
UserPatterns == {{}, {"*.tsx"}}

DirectoriesInit ==
    /\ dir_calls \in DirCalls
    /\ user_ignore \in UserPatterns
    /\ scan_ignore = user_ignore
    /\ dir_call = 0
    /\ dir_projects = <<>>
    /\ dir_project = 0
    /\ dir_files = <<>>
    /\ dir_tasks = <<>>
    /\ dir_pool = "none"
    /\ dir_findings = <<>>
    /\ all_findings = <<>>
    /\ dir_scanned = 0
    /\ dir_results = <<>>
    /\ apc = "ready"
    /\ detector = FreshDetector
    /\ DetectIdle /\ ExtractIdle /\ ScanIdle /\ SharedIdle /\ RegistryIdle /\ DiscoverIdle
    /\ DedupIdle /\ LinkerIdle

\* scan_directories up to the loop over the projects
BeginScan ==
    /\ apc = "ready"
    /\ dir_call < Len(dir_calls)
    /\ dir_call' = dir_call + 1
    /\ dir_scanned' = 0
    /\ \E found \in {discover_projects(dir_calls[dir_call + 1])} :
          IF found.raised
          THEN /\ apc' = "ready"
               /\ dir_results' = Append(dir_results, "raised")
               /\ UNCHANGED <<dir_projects, scan_ignore, all_findings, dir_project,
                              dir_tasks, dir_pool>>
          ELSE /\ dir_projects' = [i \in DOMAIN found.projects |->
                                      [name |-> found.projects[i].name,
                                       path |-> found.projects[i].path,
                                       project_type |-> found.projects[i].project_type,
                                       github_url |-> found.projects[i].github_url,
                                       findings_count |-> 0]]
               /\ scan_ignore' = setup_ignore_patterns(scan_ignore, found.projects)
               /\ all_findings' = <<>>
               /\ dir_project' = 0
               /\ dir_tasks' = <<>>
               /\ dir_pool' = "none"
               /\ apc' = "loop"
               /\ UNCHANGED dir_results
    /\ UNCHANGED <<dir_calls, user_ignore, dir_files, dir_findings, dvars, evars, svars, detector, tvars,
                   rvars, kvars, uvars, lvars>>

\* the next round of "for project in projects": _scan_project up to the
\* submission of the tasks to a new pool
BeginProject ==
    /\ apc = "loop"
    /\ dir_project < Len(dir_projects)
    /\ dir_project' = dir_project + 1
    /\ dir_findings' = <<>>
    /\ dir_files' = files_to_scan_of(scan_ignore, dir_projects[dir_project + 1].path)
    /\ IF Len(dir_files') = 0
       THEN /\ apc' = "returned"
            /\ dir_pool' = "none"
            /\ UNCHANGED dir_tasks
       ELSE /\ apc' = "collect"
            /\ dir_pool' = "open"
            /\ dir_tasks' = dir_tasks @@
                   [key \in {<<dir_project + 1, dir_files'[k]>> : k \in DOMAIN dir_files'} |->
                       [state |-> "pending", result |-> <<>>]]
    /\ UNCHANGED <<dir_calls, user_ignore, dir_call, scan_ignore, dir_projects, all_findings, dir_scanned,
                   dir_results, dvars, evars, svars, detector, tvars, rvars, kvars, uvars,
                   lvars>>

DirRunning == {key \in DOMAIN dir_tasks : dir_tasks[key].state = "running"}

\* a worker of the pool takes the oldest submitted task
DirStartTask(key) ==
    /\ dir_pool = "open"
    /\ key[1] = dir_project
    /\ dir_tasks[key].state = "pending"
    /\ \A k \in 1..(IndexOf(dir_files, key[2]) - 1) :
          dir_tasks[<<dir_project, dir_files[k]>>].state # "pending"
    /\ Cardinality(DirRunning) < max_workers(dir_files)
    /\ dir_tasks' = [dir_tasks EXCEPT ![key].state = "running"]
    /\ UNCHANGED <<dir_calls, user_ignore, dir_call, scan_ignore, dir_projects, dir_project, dir_files,
                   dir_pool, dir_findings, all_findings, dir_scanned, dir_results, apc,
                   dvars, evars, svars, detector, tvars, rvars, kvars, uvars, lvars>>

\* the worker runs _scan_file to its return
DirRunTask(key) ==
    /\ dir_tasks[key].state = "running"
    /\ \E done \in {task_return(dir_projects[key[1]], detector, key[2])} :
          /\ dir_tasks' = [dir_tasks EXCEPT ![key] = [state |-> "done",
                                                      result |-> done.findings]]
          /\ detector' = done.self
    /\ UNCHANGED <<dir_calls, user_ignore, dir_call, scan_ignore, dir_projects, dir_project, dir_files,
                   dir_pool, dir_findings, all_findings, dir_scanned, dir_results, apc,
                   dvars, evars, svars, tvars, rvars, kvars, uvars, lvars>>

\* the orchestrator takes a completed future from as_completed
DirCollect(key) ==
    /\ apc = "collect"
    /\ key[1] = dir_project
    /\ dir_tasks[key].state = "done"
    /\ dir_tasks' = [dir_tasks EXCEPT ![key].state = "collected"]
    /\ dir_findings' = extend(dir_findings, dir_tasks[key].result)
    /\ dir_scanned' = dir_scanned + 1
    /\ UNCHANGED <<dir_calls, user_ignore, dir_call, scan_ignore, dir_projects, dir_project, dir_files,
                   dir_pool, all_findings, dir_results, apc, dvars, evars, svars, detector,
                   tvars, rvars, kvars, uvars, lvars>>

\* a loop left when every task has been taken by a worker
all_started(tasks, i) ==
    \A key \in DOMAIN tasks : key[1] = i => tasks[key].state # "pending"

\* a loop left after the first result
first_completed(tasks, i) ==
    \E key \in DOMAIN tasks : key[1] = i /\ tasks[key].state = "collected"

\* as_completed has yielded every future of the project
all_completed(tasks, i) ==
    \A key \in DOMAIN tasks : key[1] = i => tasks[key].state = "collected"

\* the loop over as_completed ends, the with block shuts the pool down and
\* _scan_project returns
ShutDown ==
    /\ apc = "collect"
    /\ all_completed(dir_tasks, dir_project)
    /\ dir_pool' = "shut"
    /\ apc' = "returned"
    /\ UNCHANGED <<dir_calls, user_ignore, dir_call, scan_ignore, dir_projects, dir_project, dir_files,
                   dir_tasks, dir_findings, all_findings, dir_scanned, dir_results, dvars,
                   evars, svars, detector, tvars, rvars, kvars, uvars, lvars>>

\* the rest of the round: the project's findings join all_findings and its
\* findings_count is set
RecordProject ==
    /\ apc = "returned"
    /\ all_findings' = extend(all_findings, dir_findings)
    /\ dir_projects' = [dir_projects EXCEPT ![dir_project].findings_count = Len(dir_findings)]
    /\ apc' = "loop"
    /\ UNCHANGED <<dir_calls, user_ignore, dir_call, scan_ignore, dir_project, dir_files, dir_tasks,
                   dir_pool, dir_findings, dir_scanned, dir_results, dvars, evars, svars,
                   detector, tvars, rvars, kvars, uvars, lvars>>

\* scan_directories returns its ScanResults
ReturnResults ==
    /\ apc = "loop"
    /\ dir_project = Len(dir_projects)
    /\ dir_results' = Append(dir_results, [projects |-> dir_projects,
                                           findings |-> all_findings,
                                           total_files_scanned |-> dir_scanned])
    /\ apc' = "ready"
    /\ UNCHANGED <<dir_calls, user_ignore, dir_call, scan_ignore, dir_projects, dir_project, dir_files,
                   dir_tasks, dir_pool, dir_findings, all_findings, dir_scanned, dvars,
                   evars, svars, detector, tvars, rvars, kvars, uvars, lvars>>

DirectoriesNext ==
    \/ BeginScan
    \/ BeginProject
    \/ \E key \in DOMAIN dir_tasks : DirStartTask(key)
    \/ \E key \in DOMAIN dir_tasks : DirRunTask(key)
    \/ \E key \in DOMAIN dir_tasks : DirCollect(key)
    \/ ShutDown
    \/ RecordProject
    \/ ReturnResults

SpecDirectories == DirectoriesInit /\ [][DirectoriesNext]_vars

\* the steps of the orchestrator thread after the projects were discovered
Orchestrator ==
    BeginProject \/ (\E key \in DOMAIN dir_tasks : DirCollect(key)) \/ ShutDown
    \/ RecordProject \/ ReturnResults

\* the threads keep being scheduled: inside a call the orchestrator takes
\* its next step when it has one, an idle worker of the pool takes a waiting
\* task, and a file task that runs comes to its end; whether a further
\* call is made is up to the caller
SpecDirectoriesFair ==
    /\ SpecDirectories
    /\ WF_vars(Orchestrator)
    /\ WF_vars(\E key \in DOMAIN dir_tasks : DirStartTask(key))
    /\ WF_vars(\E key \in DOMAIN dir_tasks : DirRunTask(key))

(***************************************************************************)
(* Properties of the detection of one file (SpecDetect).                   *)
(***************************************************************************)
\* the candidates of the file before deduplication
CandidatesOf(v, lines, radius) ==
    CASE v = "legacy" -> DD_candidates(FilePath, 1, lines, DD_extract_imported_methods(lines),
                                       radius, detector.detailed_extraction,
                                   ProjectName, FileUrl)
      [] v = "ts" -> TS_candidates(FilePath, 1, lines, TS_extract_imported_methods(lines),
                                   radius, detector.detailed_extraction,
                                   ProjectName, FileUrl)
      [] v = "cs" -> CS_candidates(FilePath, 1, lines, CS_extract_imported_types(lines),
                                   radius, detector.detailed_extraction,
                                   ProjectName, FileUrl)

FindingsAt(n) == {i \in 1..Len(findings) : findings[i].line_number = n}

C2_FindingPerCall ==
    (dpc = "done" /\ variant = "legacy") =>
        \A n \in 1..Len(content) :
            {"rum_action", "log_info"} \subseteq Range(DD_pattern_types(content[n])) =>
                /\ \E i \in FindingsAt(n) : findings[i].operation_type = "rum_action"
                /\ \E i \in FindingsAt(n) : findings[i].operation_type = "log_info"

\* C7: after "import { addAction as track } from <telemetry package>" the
\* symbol map binds the local alias track, so a later line calling track()
\* yields a finding whose method_name is track.
C7_AliasResolved ==
    (dpc = "done" /\ variant \in {"legacy", "ts"}) =>
        \A m, n \in 1..Len(content) :
            (m < n /\ content[m] = WebLines[3] /\ content[n] = WebLines[4]) =>
                \E i \in FindingsAt(n) :
                    get(findings[i].data_being_sent, "method_name", "") = "track"

\* C9: for every finding at line L of a file of N lines, with radius R, the
\* context window is the slice of file lines from L - min(L-1, R) to
\* L + min(N-L, R): it holds line L, its length is
\* min(L-1, R) + 1 + min(N-L, R), and it is clipped at the file's ends.
C9_ContextWindow ==
    dpc = "done" =>
        \A i \in 1..Len(findings) :
            LET L == findings[i].line_number
                N == Len(content)
                R == context_lines
            IN /\ findings[i].context_lines
                    = SubSeq(content, L - Min(L - 1, R), L + Min(N - L, R))
               /\ Len(findings[i].context_lines) = Min(L - 1, R) + 1 + Min(N - L, R)

\* a finding whose window is clipped above and whole below
C9_ClippedWindow ==
    /\ dpc = "done"
    /\ \E i \in 1..Len(findings) :
          /\ findings[i].line_number - 1 < context_lines
          /\ Len(content) - findings[i].line_number >= context_lines
          /\ Len(findings[i].context_lines) = findings[i].line_number + context_lines

(***************************************************************************)
(* Properties of the extraction from initialisation lines (SpecExtract).   *)
(***************************************************************************)
\* C5: every clientToken value the initialisation extraction finds is
\* stored as its first min(length, 10) characters followed by "...": a value
\* of 10 characters or more is cut to 10, and a shorter value is stored
\* whole with the ellipsis appended; an empty value is not stored.
C5_TokenStoredCut ==
    epc = "done" =>
        \A k \in 1..2 :
            IF tokens[k] = "" THEN ~has(extracted[k], "client_token")
            ELSE get(extracted[k], "client_token", "")
                    = Slice(tokens[k], 0, TokenPrefix) \o "..."

\* a value shorter than 10 characters, stored with the ellipsis
C5_ShortTokenStored ==
    /\ epc = "done"
    /\ Len(tokens[1]) \in 1..(TokenPrefix - 1)
    /\ get(extracted[1], "client_token", "") = tokens[1] \o "..."

\* C5 as stated: a value of 10 characters or more is stored as its first 10
\* characters and "...", and a shorter value is not stored in that form.
C5_ShortTokenNotFlagged ==
    epc = "done" =>
        \A k \in 1..2 :
            /\ Len(tokens[k]) >= TokenPrefix =>
                  get(extracted[k], "client_token", "")
                      = Slice(tokens[k], 0, TokenPrefix) \o "..."
            /\ Len(tokens[k]) \in 1..(TokenPrefix - 1) =>
                  get(extracted[k], "client_token", "") # tokens[k] \o "..."

\* C6: two initialisation lines that differ only in the characters of the
\* token after its tenth yield the same extracted-data map; no value of the
\* map holds the whole token when the token is longer than 10 characters.
C6_TokenTailHidden ==
    (/\ epc = "done"
     /\ Len(tokens[1]) > TokenPrefix
     /\ Len(tokens[2]) > TokenPrefix
     /\ Slice(tokens[1], 0, TokenPrefix) = Slice(tokens[2], 0, TokenPrefix))
    => extracted[1] = extracted[2]

(***************************************************************************)
(* Properties of the scan of one project (SpecScan).                       *)
(***************************************************************************)
Dispatched == Range(files_to_scan)
AbsPath(p) == ProjectPath \o "/" \o p
\* the findings of file p in the project's list, in the list's order
FindingsOfFile(p) == SelectSeq(scan_findings, LAMBDA f : f.file_path = AbsPath(p))
\* what file p yields when its scan succeeds
FindingsWhenOk(p) == scan_file(FreshDetector, p, "ok").findings

\* C3: the failure of one file (unreadable, undecodable, detector raising)
\* never aborts the project scan: no task raises into the orchestrator, the
\* failed file contributes no finding, and when the scan has returned every
\* finding of every other dispatched file is in the result and nothing else.
C3_FailureIsolated ==
    /\ \A p \in DOMAIN futures : ~futures[p].raised
    /\ \A i \in 1..Len(scan_findings) :
          \E p \in Dispatched : scan_findings[i].file_path = AbsPath(p)
    /\ \A p \in DOMAIN futures :
          (futures[p].state = "collected" /\ project_files[p] # "ok")
              => FindingsOfFile(p) = <<>>
    /\ spc = "done" =>
          \A p \in Dispatched :
              /\ futures[p].state = "collected"
              /\ project_files[p] = "ok" => FindingsOfFile(p) = FindingsWhenOk(p)

\* a scan that returned with one file failed and another file's findings kept
C3_OneFailedOthersKept ==
    /\ spc = "done"
    /\ \E p, q \in Dispatched :
          /\ project_files[p] # "ok"
          /\ project_files[q] = "ok"
          /\ FindingsWhenOk(p) # <<>>
          /\ FindingsOfFile(q) # <<>>

\* C4: when the scan has returned, the scanned-file counter is the number of
\* dispatched files that were processed successfully; a file whose scan
\* failed is not counted.
C4_CountsSuccessfulFiles ==
    spc = "done" =>
        files_scanned = Cardinality({p \in Dispatched : project_files[p] = "ok"})

\* C10: every file of the project whose extension is configured and that no
\* ignore pattern matches is dispatched to detection (.cs files included).
C10_EligibleFilesDispatched ==
    spc = "done" =>
        \A p \in DOMAIN project_files :
            ((\E k \in DOMAIN file_extensions : suffix(p) = file_extensions[k])
             /\ ~should_ignore_file(p))
                => (p \in Dispatched /\ futures[p].state = "collected")

(***************************************************************************)
(* Properties of the shared detector instance (SpecShared).                *)
(***************************************************************************)
\* C8: two detect_datadog_usage calls for the same file on the same
\* detector instance return equal finding lists, whatever other calls ran
\* between them or at the same time on other threads.
C8_SameFileSameFindings ==
    \A i, j \in 1..Len(log) : log[i][1] = log[j][1] => log[i][2] = log[j][2]

\* a file detected twice, with another file's call returned in between
C8_DetectedTwice ==
    \E i, k, j \in 1..Len(log) :
       /\ i < k /\ k < j
       /\ log[i][1] = log[j][1]
       /\ log[k][1] # log[i][1]
       /\ log[i][2] # <<>>
(***************************************************************************)
(* Properties of the detector registry (SpecRegistry).                     *)
(***************************************************************************)
\* the registered detectors whose extension list holds the file's extension,
\* letter case ignored as can_handle_file ignores it
ClaimingDetectors(file_path) ==
    {i \in DOMAIN factory_detectors :
        lower(suffix(file_path)) \in Range(get_supported_extensions(factory_detectors[i]))}

\* C11: get_detector_for_file returns the first registered detector whose
\* supported extensions contain the file's extension, and None when no
\* detector claims the file; no file is claimed by two detectors, a .ts file
\* gets one detector and a .cs file gets a different one.
C11_FirstClaimingDetector ==
    rpc = "done" =>
        /\ Cardinality(ClaimingDetectors(reg_file)) <= 1
        /\ IF ClaimingDetectors(reg_file) = {}
           THEN reg_detector = NoDetector
           ELSE reg_detector = factory_detectors[SetMin(ClaimingDetectors(reg_file))]
        /\ endswith(reg_file, ".ts") => reg_detector = "ts"
        /\ endswith(reg_file, ".cs") => reg_detector = "cs"

\* the registry was asked about a .cs file and returned the second detector
C11_SecondDetectorReturned ==
    /\ rpc = "done"
    /\ endswith(reg_file, ".cs")
    /\ reg_detector = factory_detectors[2]

(***************************************************************************)
(* Properties of the scan of files with little in them (SpecQuiet).        *)
(***************************************************************************)
\* the text of the file holds none of the SDK keywords, letter case ignored
NoKeywordIn(text) ==
    \A k \in DOMAIN datadog_keywords :
        ~contains(lower(text), lower(datadog_keywords[k]))

\* the file's content is absent, empty, or holds no SDK keyword
QuietFile(p) ==
    \/ project_files[p] \in {"unreadable", "undecodable"}
    \/ join(LinesOf(p), "\n") = ""
    \/ NoKeywordIn(join(LinesOf(p), "\n"))

\* C12: _scan_file returns no finding and raises nothing for a file whose
\* content is absent (None), empty or without any SDK keyword (letter case
\* ignored), and the detector is not called for it; detect_datadog_usage on
\* empty content and on content without SDK usage returns the empty list.
C12_QuietFileSkipped ==
    /\ \A p \in DOMAIN futures :
          (futures[p].state \in {"done", "collected"} /\ QuietFile(p)) =>
              /\ futures[p].result = <<>>
              /\ ~futures[p].raised
              /\ \A k \in DOMAIN detect_calls : detect_calls[k] # p
    \* the detectors themselves, whatever the project (looked at once per scan)
    /\ spc = "start" =>
          \A v \in {"legacy", "ts", "cs"} :
              \A lines \in {<<"">>, <<"// DataDog setup", "">>,
                             <<"console.log('hello');">>} :
                  detect_datadog_usage(v, FilePath, lines, DefaultContextLines, FALSE,
                                       ProjectName, FileUrl) = <<>>

\* a readable file without keywords was skipped while the detector was called
\* for the other file of the project
C12_PlainFileSkipped ==
    /\ spc = "done"
    /\ "src/plain.ts" \in DOMAIN project_files
    /\ project_files["src/plain.ts"] = "ok"
    /\ futures["src/plain.ts"].result = <<>>
    /\ detect_calls = <<"src/app.ts">>

(***************************************************************************)
(* Properties of the categories of findings (SpecCategorise).              *)
(***************************************************************************)
InteractionVerbs ==
    <<"click", "tap", "swipe", "scroll", "input", "select", "submit", "touch">>

\* the extracted data of the finding names an interaction verb
NamesInteraction(finding) ==
    \E k \in DOMAIN InteractionVerbs :
        contains(lower(str(finding.data_being_sent)), InteractionVerbs[k])

\* the finding comes from the pattern table, not from an imported symbol
FromPatternTable(finding) == ~has(finding.data_being_sent, "method_name")

\* C13: in every detector variant a RUM action finding whose extracted data
\* names one of the interaction verbs click, tap, swipe, scroll, input,
\* select, submit, touch is user data, and one that names none is system data.
C13_InteractionIsUserData ==
    dpc = "done" =>
        \A i \in 1..Len(findings) :
            (findings[i].operation_type = "rum_action" /\ FromPatternTable(findings[i])) =>
                findings[i].data_category =
                    IF NamesInteraction(findings[i]) THEN "user_data" ELSE "system_data"

\* C14: for a finding of the pattern table the category follows from the
\* kind of operation: RUM error and log error are error data, timing is
\* performance data, import, initialisation and configuration operations are
\* configuration data, every other operation (actions aside) is system
\* data; and no finding has the category unknown.
C14_CategoryByOperation ==
    dpc = "done" =>
        \A i \in 1..Len(findings) :
            /\ findings[i].data_category # "unknown"
            /\ FromPatternTable(findings[i]) =>
                  LET op == findings[i].operation_type
                      category == findings[i].data_category
                  IN /\ op \in {"rum_error", "log_error"} => category = "error_data"
                     /\ op = "rum_timing" => category = "performance_data"
                     /\ op \in {"import", "initialisation", "configuration"} =>
                           category = "configuration_data"
                     /\ op \in {"log_info", "log_warn", "log_debug", "custom_attribute"} =>
                           category = "system_data"

(***************************************************************************)
(* Properties of the order of the findings of one file (SpecOrder).       *)
(***************************************************************************)
\* the first candidate the second pass made for line n
FirstCandidateAt(n) ==
    LET candidates == CandidatesOf(variant, content, context_lines)
        at == {i \in 1..Len(candidates) : candidates[i].line_number = n}
    IN candidates[SetMin(at)]

\* C15: the findings detect_datadog_usage returns for a file are in ascending
\* order of line number, also when deduplication replaced a kept finding by
\* a later candidate of the same line.
C15_AscendingLines ==
    dpc = "done" =>
        \A i, j \in 1..Len(findings) :
            i < j => findings[i].line_number < findings[j].line_number

\* several findings were returned, and the one of an earlier line is not the
\* first candidate of its line: it was replaced in place
C15_ReplacedInPlace ==
    /\ dpc = "done"
    /\ \E i, j \in 1..Len(findings) :
          /\ i < j
          /\ findings[i] # FirstCandidateAt(findings[i].line_number)

(***************************************************************************)
(* Properties of the worker pool of _scan_project (SpecPool).              *)
(***************************************************************************)
\* the files of the model that _get_files_to_scan yields when it meets them
EligiblePaths == {p \in {AllFiles[i].path : i \in DOMAIN AllFiles} : is_file_to_scan(p)}
EligibleFiles == DOMAIN project_files \cap EligiblePaths

\* C16: for a project with F > 0 eligible files there is exactly one task per
\* eligible file, none for another file, and at no time more than min(8, F)
\* of them are in progress; with F = 0 no task exists, nothing is ever in
\* progress and the project yields no findings.
C16_OneTaskPerFileBoundedPool ==
    LET F == Cardinality(EligibleFiles) IN
    /\ spc # "start" =>
          /\ DOMAIN futures = EligibleFiles
          /\ Len(files_to_scan) = F
    /\ Cardinality(Running) <= Min(PoolCap, F)
    /\ spc = "done" =>
          /\ \A p \in DOMAIN futures : futures[p].state = "collected"
          /\ files_scanned = F
    /\ F = 0 => /\ spc \in {"start", "done"}
                /\ futures = <<>>
                /\ scan_findings = <<>>

\* a project with more eligible files than the cap has the pool full and a
\* task still waiting
C16_PoolFull ==
    /\ Cardinality(EligibleFiles) > PoolCap
    /\ Cardinality(Running) = PoolCap
    /\ \E p \in DOMAIN futures : futures[p].state = "pending"

(***************************************************************************)
(* Properties of detailed extraction (SpecDetailed).                       *)
(***************************************************************************)
WithoutParams(found) ==
    [k \in 1..Len(found) |-> [found[k] EXCEPT !.extracted_parameters = NoParams]]

\* C17: for the same input, the findings with detailed extraction enabled
\* and disabled agree in number, order and every field but
\* extracted_parameters, and extracted_parameters is None when the mode is
\* disabled.
C17_DetailedIsAdditive ==
    dpc = "done" =>
        /\ WithoutParams(findings)
           = WithoutParams(detect_datadog_usage(variant, FilePath, content, context_lines,
                                                ~detector.detailed_extraction,
                                                ProjectName, FileUrl))
        /\ ~detector.detailed_extraction =>
              \A i \in 1..Len(findings) : findings[i].extracted_parameters = NoParams

\* detailed extraction is enabled and a finding carries extracted parameters
C17_ParametersExtracted ==
    /\ dpc = "done"
    /\ detector.detailed_extraction
    /\ \E i \in 1..Len(findings) : findings[i].extracted_parameters # NoParams

(***************************************************************************)
(* Properties of project discovery (SpecDiscover).                         *)
(***************************************************************************)
ExistingRoots == SelectSeq(target_dirs, LAMBDA d : d \notin MissingRoots)

RECURSIVE ProjectsOfEach(_)
ProjectsOfEach(dirs) ==
    IF dirs = <<>> THEN <<>>
    ELSE discover_projects(<<Head(dirs)>>).projects \o ProjectsOfEach(Tail(dirs))

\* C18: a root directory that does not exist contributes no project and
\* neither stops discovery nor raises: _is_project_root is not evaluated for
\* it, discovery raises only if it raises without the missing roots, and
\* otherwise the projects are those of the other roots, one root after the
\* other, all of which are handed to the scan.
C18_MissingRootSkipped ==
    /\ \A k \in 1..Len(root_checks) : root_checks[k] \notin MissingRoots
    /\ kpc = "raised" => discover_projects(ExistingRoots).raised
    /\ kpc \in {"scan", "done"} =>
          /\ projects = ProjectsOfEach(ExistingRoots)
          /\ \A k \in 1..Len(projects) :
                \A d \in MissingRoots : ~startswith(projects[k].path, d)
    /\ kpc = "done" => scanned = [k \in 1..Len(projects) |-> projects[k].path]

\* a missing root came first and the projects of a later root were
\* discovered and scanned
C18_LaterRootDiscovered ==
    /\ kpc = "done"
    /\ Len(target_dirs) >= 2
    /\ target_dirs[1] \in MissingRoots
    /\ projects # <<>>
    /\ scanned # <<>>

(***************************************************************************)
(* Properties of _deduplicate_findings (SpecDedup).                        *)
(***************************************************************************)
SerializedLen(finding) == Len(str(finding.data_being_sent))
NamesMethod(finding) == has(finding.data_being_sent, "method_name")

\* the later candidate carries richer data than the kept one
Richer(later, kept) ==
    \/ SerializedLen(later) > SerializedLen(kept)
    \/ (NamesMethod(later) /\ ~NamesMethod(kept))

\* the positions of the candidates of the key of candidate i, up to position n
SameKeyUpTo(i, n) == {j \in 1..n : KeyOf(dedup_input[j]) = KeyOf(dedup_input[i])}

\* the position of the candidate that is kept for the key of candidate i once
\* the first n candidates are through: the first one of the key, unless a
\* later one was richer than the one kept when it came
RECURSIVE KeptAt(_, _)
KeptAt(i, n) ==
    IF n = SetMin(SameKeyUpTo(i, Len(dedup_input))) THEN n
    ELSE IF KeyOf(dedup_input[n]) # KeyOf(dedup_input[i]) THEN KeptAt(i, n - 1)
    ELSE IF Richer(dedup_input[n], dedup_input[KeptAt(i, n - 1)]) THEN n
    ELSE KeptAt(i, n - 1)

\* the positions at which a key occurs for the first time, in order
FirstOfKeys ==
    SelectSeq([j \in 1..Len(dedup_input) |-> j],
              LAMBDA j : j = SetMin(SameKeyUpTo(j, Len(dedup_input))))

UsesImportedSymbol(n) ==
    IF variant = "legacy"
    THEN LET imported == DD_extract_imported_methods(content) IN
         \E k \in 1..Len(imported) :
             DD_find_method_calls(content[n], imported[k][1], imported[k][2]) # <<>>
    ELSE LET imported == TS_extract_imported_methods(content) IN
         \E k \in 1..Len(imported) :
             TS_find_method_calls(content[n], imported[k][1], imported[k][2]) # <<>>

\* line n matches a regex of the pattern table other than those of imports
MatchesPatternTable(n) ==
    \E t \in DOMAIN DD_pattern_types(content[n]) :
        DD_pattern_types(content[n])[t] # "imports"

\* C20: when a line matches a regex of the pattern table and also uses a
\* resolved imported symbol, the finding returned for the line is the one of
\* the imported symbol: its data_being_sent has a method_name.
C20_ImportSymbolSurvives ==
    (dpc = "done" /\ variant \in {"legacy", "ts"}) =>
        \A n \in 1..Len(content) :
            (MatchesPatternTable(n) /\ UsesImportedSymbol(n)) =>
                \A i \in FindingsAt(n) : has(findings[i].data_being_sent, "method_name")

(***************************************************************************)
(* Properties of the candidates of one line (SpecDetect).                  *)
(***************************************************************************)
\* the candidate comes from an imported symbol: its data name the symbol
SymbolResolved(candidate) ==
    \/ has(candidate.data_being_sent, "method_name")
    \/ has(candidate.data_being_sent, "type_name")

PatternTypesOf(line) ==
    IF variant = "cs" THEN CS_pattern_types(line) ELSE DD_pattern_types(line)

CandidatesAt(found, n) == {i \in 1..Len(found) : found[i].line_number = n}

UnmixedCandidates(found) ==
    \A n \in 1..Len(content) :
        /\ PatternTypesOf(content[n]) # <<>> =>
              /\ Cardinality(CandidatesAt(found, n)) = Len(PatternTypesOf(content[n]))
              /\ \A i \in CandidatesAt(found, n) : ~SymbolResolved(found[i])
        /\ PatternTypesOf(content[n]) = <<>> =>
              \A i \in CandidatesAt(found, n) : SymbolResolved(found[i])

\* C21: in the second pass the imported symbols are tested on a line only
\* when no regex of the pattern table gave a candidate for it, so the
\* candidates of a line are one per matching pattern type and none of an
\* imported symbol, or all of imported symbols.
C21_CandidatesNotMixed ==
    dpc = "done" => UnmixedCandidates(CandidatesOf(variant, content, context_lines))

\* a file with a line that matches the pattern table and uses an imported
\* symbol, and a line that only uses one and gave a candidate
C21_BothKindsOfLine ==
    /\ dpc = "done"
    /\ variant = "legacy"
    /\ \E n \in 1..Len(content) : MatchesPatternTable(n) /\ UsesImportedSymbol(n)
    /\ \E i \in 1..Len(findings) : SymbolResolved(findings[i])

(***************************************************************************)
(* Properties of the links of a file's findings (SpecScan).                *)
(***************************************************************************)
Returned == {p \in DOMAIN futures : futures[p].state \in {"done", "collected"}}

\* the link of the file with the placeholder line
PlaceholderUrl(p) == generate_file_url(AbsPath(p), 1)

\* C22: every finding a _scan_file task returns carries the link that
\* generate_file_url gives for its own line number; the task that reaches
\* the detector calls generate_file_url first with the placeholder line 1
\* and then once per finding with the finding's line, and a finding of
\* another line than 1 never keeps the placeholder link.
C22_LinkOfOwnLine ==
    \A p \in Returned :
        LET result == futures[p].result
            links == futures[p].links
        IN /\ \A k \in 1..Len(result) :
                 /\ result[k].github_url = generate_file_url(AbsPath(p), result[k].line_number)
                 /\ result[k].line_number # 1 => result[k].github_url # PlaceholderUrl(p)
                 /\ links[k + 1] = result[k].line_number
           /\ result # <<>> => Len(links) = Len(result) + 1 /\ links[1] = 1

\* a task has returned findings of a line that is not the placeholder line
C22_FindingBelowFirstLine ==
    \E p \in Returned :
        \E k \in 1..Len(futures[p].result) : futures[p].result[k].line_number > 1

(***************************************************************************)
(* Properties of the state the tasks of a pool share (SpecLinker).         *)
(***************************************************************************)
\* C23: a worker task writes no object that another worker or the
\* orchestrator can observe; the orchestrator does not ask for a branch
\* during the scan, so the state of the link collaborator is the one it
\* had when the tasks were submitted.
C23_TasksWriteNoSharedState == branch_cache = <<>>

(***************************************************************************)
(* Properties of scan_directories (SpecDirectories, SpecDirectoriesFair).  *)
(***************************************************************************)
TasksOfProject(i) == {key \in DOMAIN dir_tasks : key[1] = i}
Started == {key \in DOMAIN dir_tasks : dir_tasks[key].state # "pending"}

RECURSIVE SumOver(_, _)
SumOver(f, S) ==
    IF S = {} THEN 0
    ELSE LET x == CHOOSE y \in S : TRUE IN f[x] + SumOver(f, S \ {x})

\* the number of findings the tasks of project i returned
ReturnedByTasks(i) ==
    SumOver([key \in TasksOfProject(i) |-> Len(dir_tasks[key].result)], TasksOfProject(i))

\* C24: the projects are scanned one after the other, each with a pool of
\* its own: a file task is started only for the project whose pool is open,
\* when every file task of the earlier projects has completed and been
\* collected and their pools are shut down, and the findings_count of every
\* earlier project has been set to the number of findings of its tasks.
C24_ProjectsOneAfterTheOther ==
    /\ \A key \in Started :
          /\ \A earlier \in DOMAIN dir_tasks :
                earlier[1] < key[1] => dir_tasks[earlier].state = "collected"
          /\ dir_tasks[key].state \in {"running", "done"} =>
                key[1] = dir_project /\ dir_pool = "open"
    /\ \A key \in DOMAIN dir_tasks :
          /\ key[1] <= dir_project
          /\ key[1] < dir_project => dir_tasks[key].state = "collected"
    /\ \A i \in 1..(dir_project - 1) : dir_projects[i].findings_count = ReturnedByTasks(i)

\* a task of a later project runs after an earlier project with findings
C24_LaterProjectRuns ==
    \E key \in DOMAIN dir_tasks :
        /\ key[1] > 1
        /\ dir_tasks[key].state = "running"
        /\ \E i \in 1..(key[1] - 1) : dir_projects[i].findings_count > 0

\* every scan_directories call that has begun has returned
AllReturned == apc = "ready"

\* C25: _scan_project returns only when every file task it dispatched has
\* finished and its result has been taken, a task that failed included, and
\* when every file task terminates each scan_directories call returns a
\* ScanResults.
C25_RunToCompletion ==
    /\ [](apc = "returned" =>
            \A key \in TasksOfProject(dir_project) : dir_tasks[key].state = "collected")
    /\ [](AllReturned => Len(dir_results) = dir_call)
    /\ (~AllReturned ~> AllReturned)

\* a call has returned its ScanResults after a project in which the task of
\* a file that cannot be read finished before another task was started
C25_ReturnedAfterFailure ==
    /\ AllReturned
    /\ dir_call > 0
    /\ Len(dir_results) = dir_call
    /\ \E key \in DOMAIN dir_tasks :
          /\ (dir_projects[key[1]].path \o "/" \o key[2]) \in Unreadable
          /\ dir_tasks[key].state = "collected"
          /\ Cardinality(TasksOfProject(key[1])) > 1

\* how often finding f is in the list
Count(f, list) == Cardinality({k \in DOMAIN list : list[k] = f})

\* how often the tasks of the call returned finding f
CountInTasks(f) ==
    SumOver([key \in DOMAIN dir_tasks |-> Count(f, dir_tasks[key].result)], DOMAIN dir_tasks)

ReturnedByAnyTask == UNION {Range(dir_tasks[key].result) : key \in DOMAIN dir_tasks}

\* the ScanResults of the call that returned last
LastResult == dir_results[dir_call]

\* C27: the findings of the ScanResults are the multiset union of the lists
\* the file tasks of all projects of the call returned: every finding is in
\* the result as often as the tasks returned it, in whatever order the tasks
\* completed.
C27_FindingsAreUnionOfTaskResults ==
    (apc = "ready" /\ dir_call > 0) =>
        /\ \A key \in DOMAIN dir_tasks : dir_tasks[key].state = "collected"
        /\ Range(LastResult.findings) = ReturnedByAnyTask
        /\ \A f \in ReturnedByAnyTask : Count(f, LastResult.findings) = CountInTasks(f)
        /\ Len(LastResult.findings) =
              SumOver([i \in DOMAIN dir_projects |-> ReturnedByTasks(i)], DOMAIN dir_projects)

\* a result in which the findings of a file submitted later come before
\* those of a file of the same project submitted earlier
C27_CompletionOrderInResult ==
    /\ apc = "ready" /\ dir_call > 0
    /\ \E a, b \in DOMAIN LastResult.findings :
          /\ a < b
          /\ LastResult.findings[a].file_path = "/alt/app/src/app.ts"
          /\ LastResult.findings[b].file_path = "/alt/app/bin/run.ts"

\* the files of the project of the current round that a scanner created with
\* the patterns user_ignore dispatches in a first call for the same roots
FilesOfFreshScanner ==
    files_to_scan_of(setup_ignore_patterns(user_ignore, dir_projects),
                     dir_projects[dir_project].path)

\* C28: a scan_directories call starts its counter of scanned files at zero
\* and dispatches, for every project, the files that a scanner newly created
\* with the same configuration dispatches for the same roots, whatever calls
\* were made on the scanner before.
C28_SameAsOnFreshScanner ==
    /\ (apc = "loop" /\ dir_project = 0) => dir_scanned = 0
    /\ apc \in {"collect", "returned"} => dir_files = FilesOfFreshScanner

\* the files of the project of the current round that are not ignored by
\* the user's patterns and the default patterns of the project's own type
FilesByOwnType ==
    files_to_scan_of(setup_ignore_patterns_of(user_ignore,
                                              dir_projects[dir_project].project_type),
                     dir_projects[dir_project].path)

\* C29: the files dispatched for a project are those that the user's ignore
\* patterns and the default ignore patterns of the project's own type let
\* through, whatever the types of the other projects of the scan.
C29_IgnoredByOwnTypeOnly ==
    (dir_call = 1 /\ apc \in {"collect", "returned"}) => dir_files = FilesByOwnType

\* get_findings_by_project(project_name) of a ScanResults
get_findings_by_project(results, project_name) ==
    SelectSeq(results.findings, LAMBDA f : f.project_name = project_name)

\* no directory was discovered twice
DiscoveredOnce(found) ==
    \A i, j \in DOMAIN found : found[i].path = found[j].path => i = j

\* C30: in the ScanResults a call returned for roots that share no project
\* directory, every project's findings_count is the number of findings
\* get_findings_by_project gives for its name, and the findings_counts of
\* the projects sum to the number of findings.
C30_CountMatchesProjectName ==
    (apc = "ready" /\ dir_call > 0 /\ DiscoveredOnce(LastResult.projects)) =>
        /\ \A i \in DOMAIN LastResult.projects :
              LastResult.projects[i].findings_count =
                  Len(get_findings_by_project(LastResult, LastResult.projects[i].name))
        /\ SumOver([i \in DOMAIN LastResult.projects |-> LastResult.projects[i].findings_count],
                   DOMAIN LastResult.projects) = Len(LastResult.findings)

(***************************************************************************)
(* Properties of the candidates of lines that hold a part of a call        *)
(* (SpecPartial).                                                          *)
(***************************************************************************)
OperationTypeOf(pattern_type) ==
    IF variant = "cs" THEN CS_get_operation_type(pattern_type)
    ELSE DD_get_operation_type(pattern_type)

\* every matching pattern type of every line has its candidate, whose map
\* of extracted data holds no key without a value
CandidatePerMatch(found) ==
    \A n \in 1..Len(content) :
        /\ Cardinality(CandidatesAt(found, n)) >= Len(PatternTypesOf(content[n]))
        /\ \A t \in DOMAIN PatternTypesOf(content[n]) :
              \E i \in CandidatesAt(found, n) :
                  /\ found[i].operation_type = OperationTypeOf(PatternTypesOf(content[n])[t])
                  /\ \A k \in DOMAIN found[i].data_being_sent :
                        /\ found[i].data_being_sent[k][2] # PyNone
                        /\ found[i].data_being_sent[k][2] # ""

\* C26: a line that matches a regex of the pattern table gives a candidate
\* of that operation type also when the extraction finds none of the
\* literals it looks for; what it does not find is left out of
\* data_being_sent, and the line has a finding in the returned list.
C26_MatchAlwaysYieldsCandidate ==
    dpc = "done" =>
        /\ CandidatePerMatch(CandidatesOf(variant, content, context_lines))
        /\ \A n \in 1..Len(content) : PatternTypesOf(content[n]) # <<>> => FindingsAt(n) # {}

\* the first line of an init call over several lines gave a finding with
\* nothing extracted
C26_InitWithoutData ==
    /\ dpc = "done"
    /\ variant = "legacy"
    /\ \E i \in 1..Len(findings) :
          /\ findings[i].code_snippet = "datadogRum.init({"
          /\ findings[i].operation_type = "initialisation"
          /\ findings[i].data_being_sent = <<>>

====
